---- MODULE Spec2Model ----
(***************************************************************************)
(* The legacy (protocol <= 0.13 / 0.14) binary protocol engine of          *)
(* edb/server/protocol/binary_v0.pyx: the message loop legacy_main, its    *)
(* handlers (P D E O F Q S X > <), the error reporting / Sync recovery     *)
(* path, and the connection view and backend connection they drive; and    *)
(* the execute() coroutine of the GraphQL port, edb/graphql/extension.pyx. *)
(* A behaviour follows one front end: a binary connection, or the          *)
(* requests of the GraphQL port.                                           *)
(*                                                                         *)
(* One action is one stretch of handler code between two suspension        *)
(* points (await).  The client's messages, the compiler's answers and the  *)
(* backend's SQL results are inputs chosen with \E.                        *)
(***************************************************************************)
EXTENDS Integers, Sequences, FiniteSets, TLC

VARIABLES
    pc,                 \* where legacy_main / the running handler is suspended
    msg,                \* the client message being handled
    dispatched,         \* TRUE: msg went to its handler; FALSE: discarded by recover_from_error
    frames,             \* tags of the frames written since msg was taken
    err,                \* the exception raised by the handler of msg ("" if none)
    teardown,           \* abort() / write_log() / close() calls made, in order
    cancelled,          \* self._cancelled
    stop_requested,     \* self._stop_requested
    con_status,         \* self._con_status: "ok" or "bad" (EDGECON_BAD)
    passive_mode,       \* self._passive_mode
    protocol_version,   \* self.protocol_version
    last_anon_compiled, \* self._last_anon_compiled (<<>> is None)
    view,               \* the connection view (dbview.DatabaseConnectionView)
    cache,              \* the namespace's compiled-query cache
    conn,               \* the backend connection of the pool
    pgcon_held,         \* TRUE while the connection is borrowed by a handler
    units,              \* units of the running group that are still to be run
    skip_first,         \* skip_first of legacy_simple_query
    state,              \* local `state` of _legacy_simple_query (<<>> is None)
    orig_state,         \* local `orig_state` of _legacy_simple_query
    last_unit,          \* the query_unit the handler reports in CommandComplete
    sql_log,            \* SQL statements sent to the backend since msg was taken
    hooks,              \* server hooks called since msg was taken
    acquired,           \* get_pgcon() calls since msg was taken
    released,           \* maybe_release_pgcon() calls since msg was taken
    started,            \* view.start() calls since msg was taken
    handled,            \* messages the loop has dispatched to a handler
    pre_view,           \* the view as it was when msg was taken
    advertised,         \* the type ids of TrackedQuery the client last read in a frame
    hs,                 \* the connection's set-up: handshake, authentication
    gql,                \* the HTTP GraphQL port: the request in progress, if any
    http,               \* the HTTP EdgeQL port: the request and its response
    gcache,             \* server._http_query_cache and the execute() calls using it
    db                  \* the Database shared by several connections (DbSpec)

\* the state of one front end
front == <<pc, msg, dispatched, frames, err, teardown, cancelled, stop_requested,
           con_status, passive_mode, protocol_version, last_anon_compiled, view,
           cache, conn, pgcon_held, units, skip_first, state, orig_state,
           last_unit, sql_log, hooks, acquired, released, started, handled,
           pre_view, advertised, hs, gql, http, gcache>>

vars == <<front, db>>

----------------------------------------------------------------------------
(* Bounds *)

\* messages a connection dispatches to handlers before the client goes quiet
MaxMessages == 3

\* the same, for a connection that is followed from its handshake on
MaxConnectMessages == 2

----------------------------------------------------------------------------
(* Capabilities, query units, compiled groups *)

Capabilities == {"TRANSACTION", "DDL", "SESSION_CONFIG"}

\* uint64_t allow_capabilities = ALL_CAPABILITIES: every bit set
ALL_CAPABILITIES == Capabilities

SpNames == {"a", "b"}

None == <<>>

\* A query unit as the compiler hands it over; only the attributes the
\* protocol engine reads.
QU(nsql, caps) ==
    [sql |-> nsql, capabilities |-> caps, tx_id |-> FALSE, tx_commit |-> FALSE,
     tx_rollback |-> FALSE, tx_savepoint_rollback |-> FALSE,
     tx_savepoint_declare |-> FALSE, sp_name |-> "",
     ddl_stmt_id |-> FALSE, is_transactional |-> TRUE,
     system_config |-> FALSE, config_ops |-> FALSE,
     create_db |-> FALSE, create_db_template |-> FALSE, drop_db |-> FALSE,
     create_ns |-> FALSE, drop_ns |-> FALSE,
     cacheable |-> FALSE, in_type_id |-> 0, out_type_id |-> 0]

UnitNames ==
    {"BEGIN", "COMMIT", "ROLLBACK", "SAVEPOINT_a", "SAVEPOINT_b",
     "ROLLBACK_TO_a", "ROLLBACK_TO_b", "SELECT", "DDL", "SET",
     "CREATE_DB", "CREATE_DB_T", "DROP_DB", "CREATE_NS", "DROP_NS",
     "CONFIG_SYS"}

QueryUnit(n) ==
    CASE n = "BEGIN" -> [QU(1, {"TRANSACTION"}) EXCEPT !.tx_id = TRUE]
      [] n = "COMMIT" -> [QU(1, {"TRANSACTION"}) EXCEPT !.tx_commit = TRUE]
      [] n = "ROLLBACK" -> [QU(1, {"TRANSACTION"}) EXCEPT !.tx_rollback = TRUE]
      [] n = "SAVEPOINT_a" ->
            [QU(1, {"TRANSACTION"}) EXCEPT !.tx_savepoint_declare = TRUE, !.sp_name = "a"]
      [] n = "SAVEPOINT_b" ->
            [QU(1, {"TRANSACTION"}) EXCEPT !.tx_savepoint_declare = TRUE, !.sp_name = "b"]
      [] n = "ROLLBACK_TO_a" ->
            [QU(1, {"TRANSACTION"}) EXCEPT !.tx_savepoint_rollback = TRUE, !.sp_name = "a"]
      [] n = "ROLLBACK_TO_b" ->
            [QU(1, {"TRANSACTION"}) EXCEPT !.tx_savepoint_rollback = TRUE, !.sp_name = "b"]
      [] n = "SELECT" -> [QU(1, {}) EXCEPT !.cacheable = TRUE, !.out_type_id = 1]
      [] n = "DDL" -> [QU(1, {"DDL"}) EXCEPT !.ddl_stmt_id = TRUE]
      [] n = "SET" -> [QU(1, {"SESSION_CONFIG"}) EXCEPT !.config_ops = TRUE]
      [] n = "CREATE_DB" ->
            [QU(2, {"DDL"}) EXCEPT !.create_db = TRUE, !.is_transactional = FALSE]
      [] n = "CREATE_DB_T" ->
            [QU(2, {"DDL"}) EXCEPT !.create_db = TRUE, !.create_db_template = TRUE,
                                  !.is_transactional = FALSE]
      [] n = "DROP_DB" ->
            [QU(2, {"DDL"}) EXCEPT !.drop_db = TRUE, !.is_transactional = FALSE]
      [] n = "CREATE_NS" ->
            [QU(2, {"DDL"}) EXCEPT !.create_ns = TRUE, !.is_transactional = FALSE]
      [] n = "DROP_NS" ->
            [QU(2, {"DDL"}) EXCEPT !.drop_ns = TRUE, !.is_transactional = FALSE]
      [] n = "CONFIG_SYS" ->
            [QU(1, {"SESSION_CONFIG"}) EXCEPT !.system_config = TRUE,
                                             !.is_transactional = FALSE]

IsRollback(n) == QueryUnit(n).tx_rollback \/ QueryUnit(n).tx_savepoint_rollback

RECURSIVE GroupCapabilities(_)
\* query_unit_group.capabilities: the union over the group's units
GroupCapabilities(g) ==
    IF g = <<>> THEN {}
    ELSE QueryUnit(Head(g)).capabilities \cup GroupCapabilities(Tail(g))

\* query_unit_group.in_type_id / out_type_id: those of unit[0]
GroupInTypeId(g) == QueryUnit(g[1]).in_type_id
GroupOutTypeId(g) == QueryUnit(g[1]).out_type_id

----------------------------------------------------------------------------
(* The connection view: its transaction state machine *)

NewView ==
    [in_tx |-> FALSE, tx_error |-> FALSE, savepoints |-> <<>>,
     with_ddl |-> FALSE, config |-> 0, in_tx_config |-> 0]

_reset_tx_state(v) ==
    [v EXCEPT !.in_tx = FALSE, !.tx_error = FALSE, !.savepoints = <<>>,
              !.with_ddl = FALSE, !.in_tx_config = v.config]

\* the frame is discarded
abort_tx(v) == _reset_tx_state(v)

in_tx(v) == v.in_tx

in_tx_error(v) == v.tx_error

\* InTx + error -> InTxError; outside a transaction there is no frame to mark
tx_error(v) == IF v.in_tx THEN [v EXCEPT !.tx_error = TRUE] ELSE v

on_error(v) == tx_error(v)

RECURSIVE PopTo(_, _)
\* the savepoint stack with `name` and everything above it popped
PopTo(sps, name) ==
    IF sps = <<>> THEN <<>>
    ELSE IF sps[Len(sps)] = name THEN SubSeq(sps, 1, Len(sps) - 1)
    ELSE PopTo(SubSeq(sps, 1, Len(sps) - 1), name)

rollback_tx_to_savepoint(v, name) ==
    [v EXCEPT !.savepoints = PopTo(@, name), !.tx_error = FALSE]

declare_savepoint(v, name) == [v EXCEPT !.savepoints = Append(@, name)]

_apply_in_tx(v, u) == [v EXCEPT !.with_ddl = @ \/ u.ddl_stmt_id]

\* start(unit): a unit that begins a transaction creates the frame; inside
\* a frame the unit's markers are applied to it
start(v, u) ==
    LET v1 == IF u.tx_id /\ ~v.in_tx
              THEN [v EXCEPT !.in_tx = TRUE, !.in_tx_config = v.config]
              ELSE v
    IN IF v1.in_tx THEN _apply_in_tx(v1, u) ELSE v1

\* start(unit) in a failed transaction: only rollbacks may run
start_raises(v, u) ==
    v.tx_error /\ ~(u.tx_rollback \/ u.tx_savepoint_rollback)

\* session configuration is written to the frame inside a transaction
apply_config_ops(v, u) ==
    IF ~u.config_ops THEN v
    ELSE IF v.in_tx THEN [v EXCEPT !.in_tx_config = 1 - @]
    ELSE [v EXCEPT !.config = 1 - @]

on_success(v, u) ==
    IF u.tx_commit
    THEN [_reset_tx_state(v) EXCEPT !.config = v.in_tx_config,
                                    !.in_tx_config = v.in_tx_config]
    ELSE IF u.tx_rollback THEN _reset_tx_state(v)
    ELSE IF u.tx_savepoint_rollback THEN rollback_tx_to_savepoint(v, u.sp_name)
    ELSE IF u.tx_savepoint_declare /\ v.in_tx THEN declare_savepoint(v, u.sp_name)
    ELSE v

\* the state blob: the frame's configuration inside a transaction
serialize_state(v) == IF v.in_tx THEN <<v.in_tx_config>> ELSE <<v.config>>

\* a successful unit published a schema change: DDL outside a transaction,
\* or the COMMIT of a transaction that ran DDL
publishes_schema(v, u) ==
    \/ u.ddl_stmt_id /\ ~v.in_tx
    \/ u.tx_commit /\ v.in_tx /\ v.with_ddl

\* the cache is bypassed while in_tx_with_ddl
lookup_compiled_query(v, cch, q) == ~v.with_ddl /\ q \in cch

cache_compiled_query(v, cch, q) ==
    IF ~v.with_ddl /\ QueryUnit(q[1]).cacheable THEN cch \cup {q} ELSE cch

----------------------------------------------------------------------------
(* The compiler and the backend connection, seen from the protocol engine *)

Range(s) == {s[i] : i \in 1..Len(s)}

UnitValid(u, intx, sps) ==
    CASE u.tx_id -> ~intx
      [] u.tx_commit -> intx
      [] u.tx_savepoint_declare -> intx
      [] u.tx_savepoint_rollback -> intx /\ u.sp_name \in Range(sps)
      [] ~u.is_transactional -> ~intx
      [] OTHER -> TRUE

RECURSIVE Check(_, _, _)
\* "ok": the script compiles against a session in this transaction state;
\* "invalid": the compiler rejects it
Check(s, intx, sps) ==
    IF s = <<>> THEN "ok"
    ELSE IF Head(s) \notin UnitNames THEN "invalid"
    ELSE LET u == QueryUnit(Head(s)) IN
         IF ~UnitValid(u, intx, sps) THEN "invalid"
         ELSE Check(Tail(s),
                    IF u.tx_id THEN TRUE
                    ELSE IF u.tx_commit \/ u.tx_rollback THEN FALSE ELSE intx,
                    IF u.tx_commit \/ u.tx_rollback THEN <<>>
                    ELSE IF u.tx_savepoint_declare THEN Append(sps, u.sp_name)
                    ELSE IF u.tx_savepoint_rollback THEN PopTo(sps, u.sp_name)
                    ELSE sps)

\* the compiler accepts the query text for the view's current state; in a
\* failed transaction it compiles nothing but a rollback
compiles(q, v) ==
    /\ Check(q, v.in_tx, v.savepoints) = "ok"
    /\ q # <<>>
    /\ v.tx_error => IsRollback(q[1]) /\ Len(q) = 1

\* compile_rollback(eql): the script must begin with a rollback statement
compile_rollback_ok(q, v) ==
    /\ q # <<>>
    /\ Head(q) \in UnitNames
    /\ IsRollback(Head(q))
    /\ UnitValid(QueryUnit(Head(q)), v.in_tx, v.savepoints)

NewConn == [in_tx |-> FALSE, last_state |-> None]

\* the backend's transaction status after the unit's SQL ran; a failed
\* COMMIT leaves the backend outside the transaction
backend_after(c, u, ok) ==
    IF u.tx_id /\ ok THEN [c EXCEPT !.in_tx = TRUE]
    ELSE IF u.tx_commit \/ (u.tx_rollback /\ ok) THEN [c EXCEPT !.in_tx = FALSE]
    ELSE c

\* whether the backend can run the unit without error in its present state
\* (a stale statement replayed by E: no transaction to commit, no such
\* savepoint, ...)
backend_accepts(v, c, u) ==
    CASE u.tx_id -> ~c.in_tx /\ ~v.in_tx
      [] u.tx_commit -> c.in_tx /\ v.in_tx
      [] u.tx_savepoint_declare -> c.in_tx /\ v.in_tx
      [] u.tx_savepoint_rollback -> c.in_tx /\ u.sp_name \in Range(v.savepoints)
      [] OTHER -> TRUE

\* backend calls the unit's SQL takes: run_ddl and a transactional unit are
\* one call, any other unit is one sql_execute per statement
NCalls(u) ==
    IF u.sql = 0 THEN 0
    ELSE IF u.system_config \/ u.ddl_stmt_id \/ u.is_transactional THEN 1
    ELSE u.sql

\* 0: every backend call of the unit succeeds; k > 0: call k fails
Outcomes(v, c, u) ==
    (IF backend_accepts(v, c, u) THEN {0} ELSE {}) \cup (1..NCalls(u))

\* the backend calls made for unit n when the outcome is k, `st` being the
\* state handed to the first call
SqlCalls(n, u, st, k) ==
    [i \in 1..(IF k = 0 THEN NCalls(u) ELSE k) |->
        [unit |-> n, idx |-> i,
         path |-> IF u.system_config THEN "execute_system_config"
                  ELSE IF u.ddl_stmt_id THEN "run_ddl" ELSE "sql_execute",
         state |-> IF i = 1 /\ ~u.system_config THEN st ELSE None]]

If(c, x) == IF c THEN <<x>> ELSE <<>>

\* server hooks called before the unit's SQL
BeforeHooks(u) ==
    If(u.create_db_template, "_on_before_create_db_from_template")
    \o If(u.drop_db, "_on_before_drop_db")
    \o If(u.create_ns, "create_namespace")
    \o If(u.drop_ns, "_on_before_drop_ns")

\* server hooks called after the unit's SQL
AfterHooks(u) ==
    If(u.create_db, "introspect_db")
    \o If(u.create_ns, "introspect_ns")
    \o If(u.drop_db, "_on_after_drop_db")
    \o If(u.drop_db, "_on_after_drop_ns")

----------------------------------------------------------------------------
(* Client messages *)

\* the query header keys of the protocol, and one key no handler knows
QueryHeaderKeys ==
    {"IMPLICIT_LIMIT", "IMPLICIT_TYPEIDS", "IMPLICIT_TYPENAMES",
     "EXPLICIT_OBJECTIDS", "EXPLICIT_MODULE", "PROHIBIT_MUTATION"}

\* header keys the model's clients send besides ALLOW_CAPABILITIES
HeaderKeys == {"IMPLICIT_LIMIT", "EXPLICIT_MODULE", "UNKNOWN"}

\* hdr: header keys sent besides ALLOW_CAPABILITIES; allow_hdr: <<>> when
\* no ALLOW_CAPABILITIES header is sent, else <<its value>>; stmt_name,
\* args: whether the statement name / argument block is non-empty;
\* query: <<>> for empty query bytes, else the statements of the text
Msg(k) ==
    [kind |-> k, hdr |-> {}, allow_hdr |-> <<>>, stmt_name |-> FALSE,
     query |-> <<>>, in_tid |-> 0, out_tid |-> 0, rtype |-> "T", args |-> FALSE]

NoMsg == Msg("none")

AllowHdrs == {<<>>, <<{}>>, <<{"TRANSACTION"}>>}

TypeIds == {0, 1}

\* single-statement query texts of P, O and F; "bad" does not compile
Queries ==
    {<<"SELECT">>, <<"ROLLBACK">>, <<"ROLLBACK_TO_a">>, <<"COMMIT">>, <<"DDL">>,
     <<"CREATE_DB">>, <<"bad">>}

\* multi-statement scripts of the simple-query message
Scripts ==
    {<<n>> : n \in UnitNames} \cup
    {<<"bad">>,
     <<"BEGIN", "SELECT", "SELECT">>,
     <<"BEGIN", "SELECT", "SELECT", "ROLLBACK">>,
     <<"BEGIN", "SELECT", "ROLLBACK">>,
     <<"BEGIN", "DDL", "COMMIT">>,
     <<"BEGIN", "SAVEPOINT_a", "SET">>,
     <<"SELECT", "SELECT">>,
     <<"SET", "SELECT">>,
     <<"ROLLBACK", "SELECT">>,
     <<"ROLLBACK", "DDL">>,
     <<"ROLLBACK", "bad">>,
     <<"ROLLBACK_TO_a", "SELECT">>,
     <<"ROLLBACK_TO_a", "COMMIT">>,
     <<"SELECT", "COMMIT">>}

HdrProbes(k, q) == {[Msg(k) EXCEPT !.hdr = {h}, !.query = q] : h \in HeaderKeys}

PMessages ==
    HdrProbes("P", <<"SELECT">>)
    \cup {[Msg("P") EXCEPT !.stmt_name = TRUE, !.query = <<"SELECT">>]}
    \cup {[Msg("P") EXCEPT !.query = q] : q \in Queries \cup {<<>>}}

DMessages ==
    HdrProbes("D", <<>>)
    \cup {[Msg("D") EXCEPT !.rtype = r, !.stmt_name = n] :
            r \in {"T", "x"}, n \in BOOLEAN}

EMessages ==
    HdrProbes("E", <<>>)
    \cup {[Msg("E") EXCEPT !.allow_hdr = a, !.stmt_name = n] :
            a \in AllowHdrs, n \in BOOLEAN}

OMessages ==
    HdrProbes("O", <<"SELECT">>)
    \cup {Msg("O")}
    \cup {[Msg("O") EXCEPT !.query = <<"SELECT">>, !.in_tid = i, !.out_tid = o] :
            i \in TypeIds, o \in TypeIds}
    \cup {[Msg("O") EXCEPT !.query = q, !.allow_hdr = a,
                           !.out_tid = IF q = <<"SELECT">> THEN 1 ELSE 0] :
            q \in Queries, a \in AllowHdrs}

FMessages ==
    HdrProbes("F", <<"SELECT">>)
    \cup {Msg("F"), [Msg("F") EXCEPT !.stmt_name = TRUE, !.query = <<"SELECT">>]}
    \cup {[Msg("F") EXCEPT !.query = <<"SELECT">>, !.rtype = r, !.args = g] :
            r \in {"T", "x"}, g \in BOOLEAN}
    \cup {[Msg("F") EXCEPT !.query = q, !.allow_hdr = a] :
            q \in Queries, a \in AllowHdrs}

QMessages ==
    HdrProbes("Q", <<"SELECT">>)
    \cup {[Msg("Q") EXCEPT !.query = q, !.allow_hdr = a] :
            q \in Scripts \cup {<<>>}, a \in AllowHdrs}

OtherMessages ==
    {Msg("S"), Msg("X"), Msg(">"), Msg("<"), Msg("?"), [Msg("?") EXCEPT !.args = TRUE]}

\* what recover_from_error sees of a message: its type
Kinds == {"P", "D", "E", "O", "F", "Q", "S", "X", ">", "<", "?"}

\* allow_capabilities as the handler parses it
allow_capabilities(m) ==
    IF m.allow_hdr = <<>> THEN ALL_CAPABILITIES ELSE m.allow_hdr[1]

\* (major, minor) >= (major, minor)
VersionGE(a, b) == a[1] > b[1] \/ (a[1] = b[1] /\ a[2] >= b[2])

ProtocolVersions == {<<0, 13>>, <<0, 14>>}

----------------------------------------------------------------------------
(* legacy_main: exits and error reporting *)

env == <<cancelled, stop_requested, con_status, passive_mode, protocol_version>>
ghost == <<sql_log, hooks, acquired, released, started, pre_view>>
locals == <<units, skip_first, state, orig_state, last_unit>>
backend == <<conn, pgcon_held>>

\* the two type ids written in the opposite order
Advertise_swapped(g) ==
    [query |-> g, in_tid |-> GroupOutTypeId(g), out_tid |-> GroupInTypeId(g)]

\* what a ParseComplete or CommandDataDescription frame tells the client
\* about group g
Advertise(g) ==
    [query |-> g, in_tid |-> GroupInTypeId(g), out_tid |-> GroupOutTypeId(g)]

\* the '1' and 'T' frames among the frames fr
TypeFrames(fr) == Cardinality({i \in DOMAIN fr : fr[i] \in {"1", "T"}})

\* this step ran a unit that committed a new schema
SchemaPublished ==
    /\ pc \in {"exec", "sq_unit"}
    /\ units # <<>> /\ units' # units
    /\ err' = ""
    /\ publishes_schema(start(view, QueryUnit(units[1])), QueryUnit(units[1]))

\* the query whose type ids the client of the model remembers
TrackedQuery == <<"SELECT">>

\* the client's memory is not followed in this behaviour
Untracked == [tracking |-> FALSE]

\* the client keeps the ids that the last '1' or 'T' frame about TrackedQuery
\* carried, until a schema change is committed
client_learns ==
    advertised' =
        IF advertised = Untracked THEN Untracked
        ELSE IF TypeFrames(frames') > TypeFrames(frames)
                /\ last_anon_compiled' = TrackedQuery
        THEN Advertise(last_anon_compiled')
        ELSE IF SchemaPublished THEN None ELSE advertised

\* a connection that was authenticated and entered its message loop
Connected ==
    [phase |-> "serving", authed |-> TRUE, notified |-> 1]

\* the same, reached through the handshake and legacy_auth of the model
Handshaken ==
    [phase |-> "handshaken", authed |-> TRUE, notified |-> 1]

\* messages the connection dispatches before the client goes quiet
MessageBudget ==
    IF hs.phase = "serving" THEN MaxMessages ELSE MaxConnectMessages

ResetGhost ==
    /\ sql_log' = <<>>
    /\ hooks' = <<>>
    /\ acquired' = 0
    /\ released' = 0
    /\ started' = 0
    /\ pre_view' = view

\* the locals of the handler that returned are gone
ResetLocals ==
    /\ units' = <<>>
    /\ skip_first' = FALSE
    /\ state' = None
    /\ orig_state' = None
    /\ last_unit' = ""

\* wait_for_message() hands over a message: the connection is neither
\* cancelled nor lost while it waits
TakeMessage(p) ==
    /\ pc = p
    /\ ~cancelled
    /\ con_status = "ok"
    /\ handled < MessageBudget

\* where the connection's task is suspended in an await: the only places
\* where another task or a transport callback runs
Suspended == pc \notin {"main", "write_error", "closed", "off", "handshake", "auth"}

\* exceptions the message loop re-raises
ConnectionErrors == {"ConnectionAbortedError", "CancelledError"}

BackendErrors == {"BackendError", "BackendQueryCancelledError"}

\* a finally block that aborts whether or not a stop is pending
Finally_always_abort(td, fr) ==
    /\ pc' = "closed"
    /\ frames' = fr
    /\ teardown' = Append(td, "abort")

\* the finally block: td are the teardown calls made so far, fr the frames
Finally(td, fr) ==
    /\ pc' = "closed"
    /\ IF stop_requested
       THEN /\ frames' = Append(fr, "L")
            /\ teardown' = td \o <<"write_log", "close">>
       ELSE /\ frames' = fr
            /\ teardown' = Append(td, "abort")

\* buffer.finish_message(): unparsed payload is a ProtocolError
finish_message_raises(unread) == unread

\* the except clauses with BackendQueryCancelledError re-raised whether or
\* not the connection is being cancelled
Raise_cancelled_query_always_swallowed(e, unread, v, fr) ==
    /\ err' = e
    /\ IF \/ e \in ConnectionErrors
          \/ e = "BackendQueryCancelledError"
          \/ con_status = "bad"
       THEN view' = v /\ Finally(teardown, fr)
       ELSE /\ view' = tx_error(v)
            /\ IF finish_message_raises(unread)
               THEN Finally(teardown, fr)
               ELSE pc' = "write_error" /\ frames' = fr /\ teardown' = teardown

\* the except clauses with an exception of finish_message() ignored
Raise_reporting_goes_on(e, unread, v, fr) ==
    /\ err' = e
    /\ IF \/ e \in ConnectionErrors
          \/ cancelled /\ e = "BackendQueryCancelledError"
          \/ con_status = "bad"
       THEN view' = v /\ Finally(teardown, fr)
       ELSE /\ view' = tx_error(v)
            /\ pc' = "write_error" /\ frames' = fr /\ teardown' = teardown

\* the except clauses without the EDGECON_BAD test before tx_error
Raise_reports_on_bad_connection(e, unread, v, fr) ==
    /\ err' = e
    /\ IF \/ e \in ConnectionErrors
          \/ cancelled /\ e = "BackendQueryCancelledError"
       THEN view' = v /\ Finally(teardown, fr)
       ELSE /\ view' = tx_error(v)
            /\ IF finish_message_raises(unread)
               THEN Finally(teardown, fr)
               ELSE pc' = "write_error" /\ frames' = fr /\ teardown' = teardown

\* a handler raised e with view v and frames fr; unread: the payload of msg
\* was not consumed.  The except clauses of the message loop up to, not
\* including, write_error.
Raise(e, unread, v, fr) ==
    /\ err' = e
    /\ IF \/ e \in ConnectionErrors
          \/ cancelled /\ e = "BackendQueryCancelledError"
          \/ con_status = "bad"
       THEN view' = v /\ Finally(teardown, fr)
       ELSE /\ view' = tx_error(v)
            /\ IF finish_message_raises(unread)
               THEN Finally(teardown, fr)
               ELSE pc' = "write_error" /\ frames' = fr /\ teardown' = teardown

\* the handler goes on to its next suspension point p
Goto(p, v, fr) ==
    /\ pc' = p
    /\ view' = v
    /\ frames' = fr
    /\ err' = ""
    /\ teardown' = teardown

\* the handler returned: else-branch finish_message(), next iteration
Done(v, fr) == Goto("main", v, fr)

\* while True: the cancelled and stop checks; the bookkeeping of the message
\* just handled is cleared when the loop goes on to take the next one
LoopTop ==
    /\ pc = "main"
    /\ IF cancelled
       THEN /\ Finally(Append(teardown, "abort"), frames)
            /\ UNCHANGED <<msg, dispatched, err, ghost, locals>>
       ELSE IF stop_requested
       THEN /\ Finally(teardown, frames)
            /\ UNCHANGED <<msg, dispatched, err, ghost, locals>>
       ELSE /\ pc' = "wait"
            /\ frames' = <<>>
            /\ teardown' = teardown
            /\ msg' = NoMsg
            /\ dispatched' = FALSE
            /\ err' = ""
            /\ ResetGhost
            /\ ResetLocals
    /\ UNCHANGED <<view, last_anon_compiled, cache, env, backend, handled>>
    /\ UNCHANGED <<gql, db, hs, http, gcache>>
    /\ client_learns

\* passive mode: nothing (or an incomplete message) left in the buffer
NoMessage ==
    /\ pc = "wait"
    /\ passive_mode
    /\ \E incomplete \in BOOLEAN :
         err' = IF incomplete THEN "RuntimeError" ELSE err
    /\ Finally(teardown, frames)
    /\ UNCHANGED <<msg, dispatched, view, last_anon_compiled, cache>>
    /\ UNCHANGED <<env, ghost, locals, backend>>
    /\ UNCHANGED handled
    /\ UNCHANGED <<gql, db, hs, http, gcache>>
    /\ client_learns

\* wait_for_message on a lost or cancelled connection
WaitFails ==
    /\ pc \in {"wait", "recover"}
    /\ cancelled \/ con_status = "bad"
    /\ err' = "ConnectionAbortedError"
    /\ Finally(teardown, frames)
    /\ UNCHANGED <<msg, dispatched, view, last_anon_compiled, cache>>
    /\ UNCHANGED <<env, ghost, locals, backend>>
    /\ UNCHANGED handled
    /\ UNCHANGED <<gql, db, hs, http, gcache>>
    /\ client_learns

\* error reporting with flush_sync_on_error never set
WriteError_no_flush_sync ==
    /\ pc = "write_error"
    /\ IF con_status = "bad" THEN Finally(teardown, Append(frames, "E"))
       ELSE pc' = "recover" /\ frames' = Append(frames, "E") /\ teardown' = teardown
    /\ UNCHANGED <<msg, dispatched, err, view, last_anon_compiled, cache>>
    /\ UNCHANGED <<env, ghost, locals, backend>>
    /\ UNCHANGED handled
    /\ UNCHANGED <<gql, db, hs, http, gcache>>
    /\ client_learns

\* error reporting that flushes ReadyForQuery for every message type
WriteError_always_flush_sync ==
    /\ pc = "write_error"
    /\ IF con_status = "bad" THEN Finally(teardown, Append(frames, "E"))
       ELSE pc' = "main" /\ frames' = frames \o <<"E", "Z">> /\ teardown' = teardown
    /\ UNCHANGED <<msg, dispatched, err, view, last_anon_compiled, cache>>
    /\ UNCHANGED <<env, ghost, locals, backend>>
    /\ UNCHANGED handled
    /\ UNCHANGED <<gql, db, hs, http, gcache>>
    /\ client_learns

\* write_error, flush, then ReadyForQuery (Q) or the Sync recovery
WriteError ==
    /\ pc = "write_error"
    /\ IF con_status = "bad" THEN Finally(teardown, Append(frames, "E"))
       ELSE IF msg.kind = "Q"
       THEN pc' = "main" /\ frames' = frames \o <<"E", "Z">> /\ teardown' = teardown
       ELSE pc' = "recover" /\ frames' = Append(frames, "E") /\ teardown' = teardown
    /\ UNCHANGED <<msg, dispatched, err, view, last_anon_compiled, cache>>
    /\ UNCHANGED <<env, ghost, locals, backend>>
    /\ UNCHANGED handled
    /\ UNCHANGED <<gql, db, hs, http, gcache>>
    /\ client_learns

\* a sync() that writes no ReadyForQuery
sync_without_ready ==
    /\ TakeMessage("wait")
    /\ msg' = Msg("S")
    /\ dispatched' = TRUE
    /\ Done(view, <<>>)
    /\ UNCHANGED <<last_anon_compiled, cache, env, ghost, locals, backend>>
    /\ handled' = handled + 1
    /\ UNCHANGED <<gql, db, hs, http, gcache>>
    /\ client_learns

\* sync(): ReadyForQuery
sync ==
    /\ TakeMessage("wait")
    /\ msg' = Msg("S")
    /\ dispatched' = TRUE
    /\ Done(view, <<"Z">>)
    /\ UNCHANGED <<last_anon_compiled, cache, env, ghost, locals, backend>>
    /\ handled' = handled + 1
    /\ UNCHANGED <<gql, db, hs, http, gcache>>
    /\ client_learns

\* recover_from_error(): discard until Sync
recover_from_error ==
    /\ TakeMessage("recover")
    /\ \E k \in Kinds :
         /\ msg' = Msg(k)
         /\ IF k = "S"
            THEN dispatched' = TRUE /\ Done(view, <<"Z">>)
            ELSE dispatched' = FALSE /\ Goto("recover", view, <<>>)
    /\ UNCHANGED <<last_anon_compiled, cache, env, ghost, locals, backend>>
    /\ handled' = handled + (IF msg'.kind = "S" THEN 1 ELSE 0)
    /\ UNCHANGED <<gql, db, hs, http, gcache>>
    /\ client_learns

\* X: close() and leave the loop
terminate ==
    /\ TakeMessage("wait")
    /\ msg' = Msg("X")
    /\ dispatched' = TRUE
    /\ err' = ""
    /\ view' = view
    /\ Finally(Append(teardown, "close"), <<>>)
    /\ UNCHANGED <<last_anon_compiled, cache, env, ghost, locals, backend>>
    /\ handled' = handled + 1
    /\ UNCHANGED <<gql, db, hs, http, gcache>>
    /\ client_learns

\* any other message type
fallthrough ==
    /\ TakeMessage("wait")
    /\ \E m \in {x \in OtherMessages : x.kind = "?"} :
         /\ msg' = m
         /\ Raise("BinaryProtocolError", m.args, view, <<>>)
    /\ dispatched' = TRUE
    /\ UNCHANGED <<last_anon_compiled, cache, env, ghost, locals, backend>>
    /\ handled' = handled + 1
    /\ UNCHANGED <<gql, db, hs, http, gcache>>
    /\ client_learns

\* > and <: the dump / restore subsystem runs, then CommandComplete
legacy_dump_restore ==
    /\ TakeMessage("wait")
    /\ \E k \in {">", "<"} : msg' = Msg(k)
    /\ dispatched' = TRUE
    /\ Goto("dump", view, <<>>)
    /\ UNCHANGED <<last_anon_compiled, cache, env, ghost, locals, backend>>
    /\ handled' = handled + 1
    /\ UNCHANGED <<gql, db, hs, http, gcache>>
    /\ client_learns

dump_restore_done ==
    /\ pc = "dump"
    /\ \/ Done(view, Append(frames, "C"))
       \/ \E e \in BackendErrors : Raise(e, FALSE, view, frames)
    /\ UNCHANGED <<msg, dispatched, last_anon_compiled, cache>>
    /\ UNCHANGED <<env, ghost, locals, backend>>
    /\ UNCHANGED handled
    /\ UNCHANGED <<gql, db, hs, http, gcache>>
    /\ client_learns

----------------------------------------------------------------------------
(* P and D *)

\* the prepare part with every header key accepted
prepare_error_any_header(m, parse_stmt_name, more) ==
    IF parse_stmt_name /\ m.stmt_name THEN <<"UnsupportedFeatureError", TRUE>>
    ELSE IF m.query = <<>> THEN <<"BinaryProtocolError", more>>
    ELSE None

\* legacy_parse_prepare_query_part: <<error, unread>> or None.  more: the
\* message has fields after the query text
prepare_error(m, parse_stmt_name, more) ==
    IF ~(m.hdr \subseteq QueryHeaderKeys) THEN <<"BinaryProtocolError", TRUE>>
    ELSE IF parse_stmt_name /\ m.stmt_name THEN <<"UnsupportedFeatureError", TRUE>>
    ELSE IF m.query = <<>> THEN <<"BinaryProtocolError", more>>
    ELSE None

\* the error of a query the compiler rejects
CompileError(v) == IF v.tx_error THEN "TransactionError" ELSE "QueryError"

\* _parse(query_req): cache, else compiler
parse_ok(v, cch, q) == lookup_compiled_query(v, cch, q) \/ compiles(q, v)

legacy_parse ==
    /\ TakeMessage("wait")
    /\ \E m \in PMessages :
         /\ msg' = m
         /\ LET e == prepare_error(m, TRUE, FALSE) IN
            IF e # None THEN Raise(e[1], e[2], view, <<>>)
            ELSE Goto("parse", view, <<>>)
    /\ dispatched' = TRUE
    /\ last_anon_compiled' = None
    /\ UNCHANGED <<cache, env, ghost, locals, backend>>
    /\ handled' = handled + 1
    /\ UNCHANGED <<gql, db, hs, http, gcache>>
    /\ client_learns

\* _parse returned or raised: ParseComplete
parse_done ==
    /\ pc = "parse"
    /\ IF parse_ok(view, cache, msg.query)
       THEN /\ cache' = cache_compiled_query(view, cache, msg.query)
            /\ last_anon_compiled' = msg.query
            /\ Done(view, Append(frames, "1"))
       ELSE /\ Raise(CompileError(view), FALSE, view, frames)
            /\ UNCHANGED <<cache, last_anon_compiled>>
    /\ UNCHANGED <<msg, dispatched, env, ghost, locals, backend>>
    /\ UNCHANGED handled
    /\ UNCHANGED <<gql, db, hs, http, gcache>>
    /\ client_learns

\* D dispatched to legacy_describe whatever the protocol version
legacy_describe_any_version ==
    /\ TakeMessage("wait")
    /\ \E m \in DMessages :
         /\ msg' = m
         /\ IF m.hdr # {} THEN Raise("BinaryProtocolError", TRUE, view, <<>>)
            ELSE IF m.rtype # "T" THEN Raise("BinaryProtocolError", TRUE, view, <<>>)
            ELSE IF m.stmt_name THEN Raise("UnsupportedFeatureError", FALSE, view, <<>>)
            ELSE IF last_anon_compiled = None
            THEN Raise("TypeSpecNotFoundError", FALSE, view, <<>>)
            ELSE Done(view, <<"T">>)
    /\ dispatched' = TRUE
    /\ UNCHANGED <<last_anon_compiled, cache, env, ghost, locals, backend>>
    /\ handled' = handled + 1
    /\ UNCHANGED <<gql, db, hs, http, gcache>>
    /\ client_learns

legacy_describe ==
    /\ TakeMessage("wait")
    /\ \E m \in DMessages :
         /\ msg' = m
         /\ IF VersionGE(protocol_version, <<0, 14>>)
            THEN Raise("BinaryProtocolError", TRUE, view, <<>>)
            ELSE IF m.hdr # {} THEN Raise("BinaryProtocolError", TRUE, view, <<>>)
            ELSE IF m.rtype # "T" THEN Raise("BinaryProtocolError", TRUE, view, <<>>)
            ELSE IF m.stmt_name THEN Raise("UnsupportedFeatureError", FALSE, view, <<>>)
            ELSE IF last_anon_compiled = None
            THEN Raise("TypeSpecNotFoundError", FALSE, view, <<>>)
            ELSE Done(view, <<"T">>)
    /\ dispatched' = TRUE
    /\ UNCHANGED <<last_anon_compiled, cache, env, ghost, locals, backend>>
    /\ handled' = handled + 1
    /\ UNCHANGED <<gql, db, hs, http, gcache>>
    /\ client_learns

----------------------------------------------------------------------------
(* E, O and F *)

\* a capability check that lets everything through
disabled_never(g, m) == FALSE

\* query_unit_group.capabilities & ~allow_capabilities
disabled(g, m) == GroupCapabilities(g) \ allow_capabilities(m) # {}

\* a rollback that changes the view before its SQL has run
rollback_view_before_sql(v, query_unit, ok) ==
    IF query_unit.tx_savepoint_rollback
    THEN rollback_tx_to_savepoint(v, query_unit.sp_name)
    ELSE abort_tx(v)

\* the try-body of a rollback: the SQL, then the view; ok: the SQL succeeded
rollback_view(v, query_unit, ok) ==
    IF ~ok THEN v
    ELSE IF query_unit.tx_savepoint_rollback
    THEN rollback_tx_to_savepoint(v, query_unit.sp_name)
    ELSE abort_tx(v)

\* an except clause without the abort_tx() workaround
unit_failed_no_abort(v, c) == on_error(v)

\* an except clause that always aborts the view's transaction
unit_failed_always_abort(v, c) == abort_tx(on_error(v))

\* except Exception: on_error(), and abort_tx() when the backend connection
\* c has left the transaction the view is still in
unit_failed(v, c) ==
    LET w == on_error(v) IN
    IF ~c.in_tx /\ in_tx(w) THEN abort_tx(w) ELSE w

\* get_pgcon()
get_pgcon ==
    /\ pgcon_held' = TRUE
    /\ acquired' = acquired + 1

\* maybe_release_pgcon(conn)
maybe_release_pgcon ==
    /\ pgcon_held' = FALSE
    /\ released' = released + 1

NoPgcon == UNCHANGED <<units, pgcon_held, acquired>>

\* _legacy_execute without raise_in_tx_error()
_legacy_execute_unchecked(g, fr) ==
    LET query_unit == QueryUnit(g[1]) IN
    IF query_unit.tx_savepoint_rollback \/ query_unit.tx_rollback
    THEN Goto("exec_rollback", view, fr) /\ get_pgcon /\ units' = g
    ELSE Goto("exec", view, fr) /\ get_pgcon /\ units' = g

\* _legacy_execute(compiled, ...) up to its get_pgcon(); fr: frames so far
_legacy_execute(g, fr) ==
    LET query_unit == QueryUnit(g[1]) IN
    IF in_tx_error(view) \/ query_unit.tx_savepoint_rollback
    THEN IF ~(query_unit.tx_savepoint_rollback \/ query_unit.tx_rollback)
         THEN Raise("TransactionError", FALSE, view, fr) /\ NoPgcon
         ELSE Goto("exec_rollback", view, fr) /\ get_pgcon /\ units' = g
    ELSE Goto("exec", view, fr) /\ get_pgcon /\ units' = g

\* _execute(compiled, ...) up to its get_pgcon()
_execute(g, fr) ==
    IF in_tx_error(view) /\ ~IsRollback(g[1])
    THEN Raise("TransactionError", FALSE, view, fr) /\ NoPgcon
    ELSE Goto("exec", view, fr) /\ get_pgcon /\ units' = g

legacy_execute ==
    /\ TakeMessage("wait")
    /\ \E m \in EMessages :
         /\ msg' = m
         /\ IF m.hdr # {}
            THEN Raise("BinaryProtocolError", TRUE, view, <<>>) /\ NoPgcon
            ELSE IF m.stmt_name
            THEN Raise("UnsupportedFeatureError", FALSE, view, <<>>) /\ NoPgcon
            ELSE IF last_anon_compiled = None
            THEN Raise("BinaryProtocolError", FALSE, view, <<>>) /\ NoPgcon
            ELSE IF disabled(last_anon_compiled, m)
            THEN Raise("DisabledCapabilityError", FALSE, view, <<>>) /\ NoPgcon
            ELSE _legacy_execute(last_anon_compiled, <<>>)
    /\ dispatched' = TRUE
    /\ UNCHANGED <<last_anon_compiled, cache, env, conn>>
    /\ UNCHANGED <<skip_first, state, orig_state, last_unit>>
    /\ UNCHANGED <<sql_log, hooks, released, started, pre_view>>
    /\ handled' = handled + 1
    /\ UNCHANGED <<gql, db, hs, http, gcache>>
    /\ client_learns

\* the rollback branch of _legacy_execute after get_pgcon()
exec_rollback_done ==
    /\ pc = "exec_rollback"
    /\ LET n == units[1]
           query_unit == QueryUnit(n)
       IN \E k \in Outcomes(view, conn, query_unit) :
            /\ sql_log' = sql_log \o SqlCalls(n, query_unit, None, k)
            /\ conn' = backend_after(conn, query_unit, k = 0)
            /\ IF k = 0
               THEN /\ Done(rollback_view(view, query_unit, TRUE), Append(frames, "C"))
                    /\ last_unit' = n
               ELSE /\ \E e \in BackendErrors :
                         Raise(e, FALSE, rollback_view(view, query_unit, FALSE), frames)
                    /\ last_unit' = last_unit
    /\ maybe_release_pgcon
    /\ units' = <<>>
    /\ UNCHANGED <<msg, dispatched, last_anon_compiled, cache, env>>
    /\ UNCHANGED <<skip_first, state, orig_state, hooks, acquired, started, pre_view>>
    /\ UNCHANGED handled
    /\ UNCHANGED <<gql, db, hs, http, gcache>>
    /\ client_learns

\* execute.execute(conn, dbv, compiled, ...) and the release that follows;
\* F (the current _execute) writes no CommandComplete of its own
execute_done ==
    /\ pc = "exec"
    /\ LET n == units[1]
           u == QueryUnit(n)
           ser == serialize_state(view)
           st == IF conn.last_state = ser THEN None ELSE ser
       IN \E k \in Outcomes(view, conn, u) :
            LET v1 == start(view, u)
                c1 == backend_after(conn, u, k = 0)
                vOK == on_success(apply_config_ops(v1, u), u)
                vERR == unit_failed(v1, c1)
            IN /\ sql_log' = sql_log \o SqlCalls(n, u, st, k)
               /\ IF k = 0
                  THEN /\ hooks' = hooks \o BeforeHooks(u) \o AfterHooks(u)
                       /\ cache' = IF publishes_schema(v1, u) THEN {} ELSE cache
                       /\ conn' = IF ~in_tx(vOK) /\ serialize_state(vOK) # ser
                                  THEN [c1 EXCEPT !.last_state = serialize_state(vOK)]
                                  ELSE c1
                       /\ Done(vOK, IF msg.kind = "F" THEN frames
                                    ELSE Append(frames, "C"))
                       /\ last_unit' = n
                  ELSE /\ hooks' = hooks \o BeforeHooks(u)
                       /\ cache' = cache
                       /\ conn' = c1
                       /\ \E e \in BackendErrors : Raise(e, FALSE, vERR, frames)
                       /\ last_unit' = last_unit
    /\ started' = started + 1
    /\ maybe_release_pgcon
    /\ units' = <<>>
    /\ UNCHANGED <<msg, dispatched, last_anon_compiled, env>>
    /\ UNCHANGED <<skip_first, state, orig_state, acquired, pre_view>>
    /\ UNCHANGED handled
    /\ UNCHANGED <<gql, db, hs, http, gcache>>
    /\ client_learns

\* the type-id mismatch branch without its `return`
optimistic_tail_no_return(m, g) ==
    IF GroupCapabilities(g) \ allow_capabilities(m) # {}
    THEN Raise("DisabledCapabilityError", FALSE, view, <<>>) /\ NoPgcon
    ELSE IF GroupInTypeId(g) # m.in_tid \/ GroupOutTypeId(g) # m.out_tid
    THEN _legacy_execute(g, <<"T">>)
    ELSE _legacy_execute(g, <<>>)

\* the type-id comparison left out: an O is always executed
optimistic_tail_ignores_type_ids(m, g) ==
    IF GroupCapabilities(g) \ allow_capabilities(m) # {}
    THEN Raise("DisabledCapabilityError", FALSE, view, <<>>) /\ NoPgcon
    ELSE _legacy_execute(g, <<>>)

\* legacy_optimistic_execute from the capability check on; g is the group
optimistic_tail(m, g) ==
    IF disabled(g, m)
    THEN Raise("DisabledCapabilityError", FALSE, view, <<>>) /\ NoPgcon
    ELSE IF GroupInTypeId(g) # m.in_tid \/ GroupOutTypeId(g) # m.out_tid
    THEN /\ IF cancelled
            THEN Raise("ConnectionAbortedError", FALSE, view, <<"T">>)
            ELSE Done(view, <<"T">>)
         /\ NoPgcon
    ELSE _legacy_execute(g, <<>>)

legacy_optimistic_execute ==
    /\ TakeMessage("wait")
    /\ \E m \in OMessages :
         /\ msg' = m
         /\ LET e == prepare_error(m, FALSE, TRUE) IN
            IF e # None
            THEN /\ Raise(e[1], e[2], view, <<>>)
                 /\ last_anon_compiled' = None
                 /\ NoPgcon
            ELSE IF lookup_compiled_query(view, cache, m.query)
            THEN /\ last_anon_compiled' = m.query
                 /\ optimistic_tail(m, m.query)
            ELSE /\ last_anon_compiled' = None
                 /\ Goto("oe_parse", view, <<>>)
                 /\ NoPgcon
    /\ dispatched' = TRUE
    /\ UNCHANGED <<cache, env, conn>>
    /\ UNCHANGED <<skip_first, state, orig_state, last_unit>>
    /\ UNCHANGED <<sql_log, hooks, released, started, pre_view>>
    /\ handled' = handled + 1
    /\ UNCHANGED <<gql, db, hs, http, gcache>>
    /\ client_learns

\* the _parse of a cache miss returned or raised
optimistic_parse_done ==
    /\ pc = "oe_parse"
    /\ IF ~parse_ok(view, cache, msg.query)
       THEN /\ Raise(CompileError(view), FALSE, view, frames)
            /\ UNCHANGED <<cache, last_anon_compiled>>
            /\ NoPgcon
       ELSE /\ cache' = cache_compiled_query(view, cache, msg.query)
            /\ last_anon_compiled' = msg.query
            /\ IF cancelled
               THEN Raise("ConnectionAbortedError", FALSE, view, frames) /\ NoPgcon
               ELSE optimistic_tail(msg, msg.query)
    /\ UNCHANGED <<msg, dispatched, env, conn>>
    /\ UNCHANGED <<skip_first, state, orig_state, last_unit>>
    /\ UNCHANGED <<sql_log, hooks, released, started, pre_view>>
    /\ UNCHANGED handled
    /\ UNCHANGED <<gql, db, hs, http, gcache>>
    /\ client_learns

\* legacy_fast_query without the reset of _last_anon_compiled on entry
legacy_fast_query_keeps_anon ==
    /\ TakeMessage("wait")
    /\ \E m \in FMessages :
         /\ msg' = m
         /\ LET e == prepare_error(m, TRUE, TRUE) IN
            IF e # None THEN Raise(e[1], e[2], view, <<>>)
            ELSE Goto("fq_parse", view, <<>>)
    /\ dispatched' = TRUE
    /\ UNCHANGED <<last_anon_compiled, cache, env, ghost, locals, backend>>
    /\ handled' = handled + 1
    /\ UNCHANGED <<gql, db, hs, http, gcache>>
    /\ client_learns

legacy_fast_query ==
    /\ TakeMessage("wait")
    /\ \E m \in FMessages :
         /\ msg' = m
         /\ LET e == prepare_error(m, TRUE, TRUE) IN
            IF e # None THEN Raise(e[1], e[2], view, <<>>)
            ELSE Goto("fq_parse", view, <<>>)
    /\ dispatched' = TRUE
    /\ last_anon_compiled' = None
    /\ UNCHANGED <<cache, env, ghost, locals, backend>>
    /\ handled' = handled + 1
    /\ UNCHANGED <<gql, db, hs, http, gcache>>
    /\ client_learns

\* legacy_fast_query writing the description before its checks
fast_query_parse_done_describes_first ==
    /\ pc = "fq_parse"
    /\ IF ~parse_ok(view, cache, msg.query)
       THEN /\ Raise(CompileError(view), TRUE, view, frames)
            /\ UNCHANGED <<cache, last_anon_compiled>>
            /\ NoPgcon
       ELSE /\ cache' = cache_compiled_query(view, cache, msg.query)
            /\ last_anon_compiled' = msg.query
            /\ IF msg.rtype # "T"
               THEN Raise("BinaryProtocolError", TRUE, view, frames) /\ NoPgcon
               ELSE IF msg.args
               THEN Raise("UnsupportedFeatureError", FALSE, view,
                          Append(frames, "T")) /\ NoPgcon
               ELSE IF disabled(msg.query, msg)
               THEN Raise("DisabledCapabilityError", FALSE, view,
                          Append(frames, "T")) /\ NoPgcon
               ELSE _execute(msg.query, Append(frames, "T"))
    /\ UNCHANGED <<msg, dispatched, env, conn>>
    /\ UNCHANGED <<skip_first, state, orig_state, last_unit>>
    /\ UNCHANGED <<sql_log, hooks, released, started, pre_view>>
    /\ UNCHANGED handled
    /\ UNCHANGED <<gql, db, hs, http, gcache>>
    /\ client_learns

\* the _parse of F returned or raised; the rest of legacy_fast_query
fast_query_parse_done ==
    /\ pc = "fq_parse"
    /\ IF ~parse_ok(view, cache, msg.query)
       THEN /\ Raise(CompileError(view), TRUE, view, frames)
            /\ UNCHANGED <<cache, last_anon_compiled>>
            /\ NoPgcon
       ELSE /\ cache' = cache_compiled_query(view, cache, msg.query)
            /\ last_anon_compiled' = msg.query
            /\ IF msg.rtype # "T"
               THEN Raise("BinaryProtocolError", TRUE, view, frames) /\ NoPgcon
               ELSE IF msg.args
               THEN Raise("UnsupportedFeatureError", FALSE, view, frames) /\ NoPgcon
               ELSE IF disabled(msg.query, msg)
               THEN Raise("DisabledCapabilityError", FALSE, view, frames) /\ NoPgcon
               ELSE _execute(msg.query, Append(frames, "T"))
    /\ UNCHANGED <<msg, dispatched, env, conn>>
    /\ UNCHANGED <<skip_first, state, orig_state, last_unit>>
    /\ UNCHANGED <<sql_log, hooks, released, started, pre_view>>
    /\ UNCHANGED handled
    /\ UNCHANGED <<gql, db, hs, http, gcache>>
    /\ client_learns

----------------------------------------------------------------------------
(* Q *)

\* header keys legacy_simple_query accepts besides ALLOW_CAPABILITIES
ScriptHeaderKeys == {"EXPLICIT_MODULE", "PROHIBIT_MUTATION"}

\* a script compiled whole whatever skip_first is
ScriptBody_keeps_first(q, skip) == q

\* the statements _legacy_compile_script compiles
ScriptBody(q, skip) == IF skip THEN Tail(q) ELSE q

legacy_simple_query ==
    /\ TakeMessage("wait")
    /\ \E m \in QMessages :
         /\ msg' = m
         /\ IF ~(m.hdr \subseteq ScriptHeaderKeys)
            THEN Raise("BinaryProtocolError", TRUE, view, <<>>)
            ELSE IF m.query = <<>>
            THEN Raise("BinaryProtocolError", FALSE, view, <<>>)
            ELSE IF in_tx_error(view)
            THEN Goto("recover_script", view, <<>>)
            ELSE IF cancelled
            THEN Raise("ConnectionAbortedError", FALSE, view, <<>>)
            ELSE Goto("sq_compile", view, <<>>)
    /\ dispatched' = TRUE
    /\ skip_first' = FALSE
    /\ UNCHANGED <<last_anon_compiled, cache, env, ghost, backend>>
    /\ UNCHANGED <<units, state, orig_state, last_unit>>
    /\ handled' = handled + 1
    /\ UNCHANGED <<gql, db, hs, http, gcache>>
    /\ client_learns

\* _legacy_recover_script_error without its TRANSACTION check
recover_script_compiled_unchecked ==
    /\ pc = "recover_script"
    /\ IF ~compile_rollback_ok(msg.query, view)
       THEN Raise("TransactionError", FALSE, view, frames) /\ NoPgcon
       ELSE /\ Goto("recover_sql", view, frames)
            /\ get_pgcon
            /\ units' = <<msg.query[1]>>
    /\ UNCHANGED <<msg, dispatched, last_anon_compiled, cache, env, conn>>
    /\ UNCHANGED <<skip_first, state, orig_state, last_unit>>
    /\ UNCHANGED <<sql_log, hooks, released, started, pre_view>>
    /\ UNCHANGED handled
    /\ UNCHANGED <<gql, db, hs, http, gcache>>
    /\ client_learns

\* _legacy_recover_script_error: compile_rollback returned or raised, the
\* TRANSACTION check, get_pgcon()
recover_script_compiled ==
    /\ pc = "recover_script"
    /\ IF ~compile_rollback_ok(msg.query, view)
       THEN Raise("TransactionError", FALSE, view, frames) /\ NoPgcon
       ELSE IF "TRANSACTION" \notin allow_capabilities(msg)
       THEN Raise("DisabledCapabilityError", FALSE, view, frames) /\ NoPgcon
       ELSE /\ Goto("recover_sql", view, frames)
            /\ get_pgcon
            /\ units' = <<msg.query[1]>>
    /\ UNCHANGED <<msg, dispatched, last_anon_compiled, cache, env, conn>>
    /\ UNCHANGED <<skip_first, state, orig_state, last_unit>>
    /\ UNCHANGED <<sql_log, hooks, released, started, pre_view>>
    /\ UNCHANGED handled
    /\ UNCHANGED <<gql, db, hs, http, gcache>>
    /\ client_learns

\* _legacy_recover_script_error after get_pgcon(), and legacy_simple_query
\* up to its call of _legacy_simple_query
recover_script_done ==
    /\ pc = "recover_sql"
    /\ LET n == units[1]
           query_unit == QueryUnit(n)
           num_remain == Len(msg.query) - 1
       IN \E k \in Outcomes(view, conn, query_unit) :
            LET v1 == rollback_view(view, query_unit, k = 0)
            IN /\ sql_log' = sql_log \o SqlCalls(n, query_unit, None, k)
               /\ conn' = backend_after(conn, query_unit, k = 0)
               /\ IF k # 0
                  THEN /\ \E e \in BackendErrors : Raise(e, FALSE, v1, frames)
                       /\ UNCHANGED <<skip_first, last_unit>>
                  ELSE IF num_remain = 0
                  THEN /\ Done(v1, frames \o <<"C", "Z">>)
                       /\ last_unit' = n
                       /\ skip_first' = skip_first
                  ELSE /\ skip_first' = TRUE
                       /\ last_unit' = last_unit
                       /\ IF cancelled
                          THEN Raise("ConnectionAbortedError", FALSE, v1, frames)
                          ELSE Goto("sq_compile", v1, frames)
    /\ maybe_release_pgcon
    /\ units' = <<>>
    /\ UNCHANGED <<msg, dispatched, last_anon_compiled, cache, env>>
    /\ UNCHANGED <<state, orig_state, hooks, acquired, started, pre_view>>
    /\ UNCHANGED handled
    /\ UNCHANGED <<gql, db, hs, http, gcache>>
    /\ client_learns

\* _legacy_simple_query: the compiler returned or raised, the cancelled and
\* capability checks, the state to restore
simple_query_compiled ==
    /\ pc = "sq_compile"
    /\ LET body == ScriptBody(msg.query, skip_first) IN
       IF Check(body, view.in_tx, view.savepoints) # "ok"
       THEN /\ Raise(CompileError(view), FALSE, view, frames)
            /\ UNCHANGED <<units, state, orig_state>>
       ELSE IF cancelled
       THEN /\ Raise("ConnectionAbortedError", FALSE, view, frames)
            /\ UNCHANGED <<units, state, orig_state>>
       ELSE IF disabled(body, msg)
       THEN /\ Raise("DisabledCapabilityError", FALSE, view, frames)
            /\ UNCHANGED <<units, state, orig_state>>
       ELSE /\ Goto("sq_getcon", view, frames)
            /\ units' = body
            /\ state' = IF ~in_tx(view) THEN serialize_state(view) ELSE None
            /\ orig_state' = state'
    /\ UNCHANGED <<msg, dispatched, last_anon_compiled, cache, env, ghost, backend>>
    /\ UNCHANGED <<skip_first, last_unit>>
    /\ UNCHANGED handled
    /\ UNCHANGED <<gql, db, hs, http, gcache>>
    /\ client_learns

\* conn.last_state recorded without looking at the view's transaction
record_last_state_in_tx(c, v, st, orig) ==
    IF st # orig THEN [c EXCEPT !.last_state = st] ELSE c

\* the else branch of the unit loop: outside a transaction, a state that is
\* not orig_state is recorded on the backend connection
record_last_state(c, v, st, orig) ==
    IF ~in_tx(v) /\ st # orig THEN [c EXCEPT !.last_state = st] ELSE c

\* get_pgcon() returned; the state is restored whatever conn.last_state is
simple_query_getcon_always_restores ==
    /\ pc = "sq_getcon"
    /\ get_pgcon
    /\ state' = state
    /\ Goto("sq_unit", view, frames)
    /\ UNCHANGED <<msg, dispatched, last_anon_compiled, cache, env, conn>>
    /\ UNCHANGED <<units, skip_first, orig_state, last_unit>>
    /\ UNCHANGED <<sql_log, hooks, released, started, pre_view>>
    /\ UNCHANGED handled
    /\ UNCHANGED <<gql, db, hs, http, gcache>>
    /\ client_learns

\* get_pgcon() returned; conn.last_state == state skips the restore
simple_query_getcon ==
    /\ pc = "sq_getcon"
    /\ get_pgcon
    /\ state' = IF conn.last_state = state THEN None ELSE state
    /\ Goto("sq_unit", view, frames)
    /\ UNCHANGED <<msg, dispatched, last_anon_compiled, cache, env, conn>>
    /\ UNCHANGED <<units, skip_first, orig_state, last_unit>>
    /\ UNCHANGED <<sql_log, hooks, released, started, pre_view>>
    /\ UNCHANGED handled
    /\ UNCHANGED <<gql, db, hs, http, gcache>>
    /\ client_learns

\* a turn of the unit loop that goes on to the next unit when the unit's SQL
\* failed
simple_query_unit_goes_on_after_error ==
    /\ pc = "sq_unit"
    /\ LET n == units[1]
           query_unit == QueryUnit(n)
       IN IF cancelled
          THEN /\ Raise("ConnectionAbortedError", FALSE, view, frames)
               /\ maybe_release_pgcon
               /\ units' = <<>>
               /\ UNCHANGED <<cache, conn, state, orig_state, last_unit>>
               /\ UNCHANGED <<sql_log, hooks, started, pre_view>>
          ELSE IF start_raises(view, query_unit)
          THEN /\ Raise("TransactionError", FALSE, view, frames)
               /\ started' = started + 1
               /\ maybe_release_pgcon
               /\ units' = <<>>
               /\ UNCHANGED <<cache, conn, state, orig_state, last_unit>>
               /\ UNCHANGED <<sql_log, hooks, pre_view>>
          ELSE \E k \in Outcomes(view, conn, query_unit) :
            LET v1 == start(view, query_unit)
                c1 == backend_after(conn, query_unit, k = 0)
                orig1 == IF ~query_unit.system_config /\ query_unit.sql > 0
                            /\ state # None
                         THEN None ELSE orig_state
                vOK == on_success(apply_config_ops(v1, query_unit), query_unit)
                state1 == IF ~in_tx(vOK) THEN serialize_state(vOK) ELSE state
                vERR == unit_failed(v1, c1)
            IN /\ started' = started + 1
               /\ sql_log' = sql_log \o SqlCalls(n, query_unit, state, k)
               /\ IF k # 0
                  THEN /\ hooks' = hooks \o BeforeHooks(query_unit)
                       /\ conn' = c1
                       /\ UNCHANGED <<cache, state, orig_state, last_unit>>
                       /\ IF Tail(units) = <<>>
                          THEN /\ \E e \in BackendErrors : Raise(e, FALSE, vERR, frames)
                               /\ maybe_release_pgcon
                               /\ units' = <<>>
                          ELSE /\ Goto("sq_unit", vERR, frames)
                               /\ units' = Tail(units)
                               /\ UNCHANGED <<pgcon_held, released>>
                  ELSE /\ hooks' = hooks \o BeforeHooks(query_unit)
                                   \o (IF query_unit.system_config THEN <<>>
                                       ELSE AfterHooks(query_unit))
                       /\ cache' = IF publishes_schema(v1, query_unit) THEN {} ELSE cache
                       /\ state' = state1
                       /\ orig_state' = orig1
                       /\ conn' = record_last_state(c1, vOK, state1, orig1)
                       /\ units' = Tail(units)
                       /\ IF Tail(units) = <<>>
                          THEN /\ maybe_release_pgcon
                               /\ last_unit' = n
                               /\ Done(vOK, frames \o <<"C", "Z">>)
                          ELSE /\ UNCHANGED <<pgcon_held, released, last_unit>>
                               /\ Goto("sq_unit", vOK, frames)
    /\ UNCHANGED <<msg, dispatched, last_anon_compiled, env, skip_first, acquired>>
    /\ UNCHANGED pre_view
    /\ UNCHANGED handled
    /\ UNCHANGED <<gql, db, hs, http, gcache>>
    /\ client_learns

\* one turn of `for query_unit in unit_group.units`, and what follows the
\* loop when it was the last
simple_query_unit ==
    /\ pc = "sq_unit"
    /\ LET n == units[1]
           query_unit == QueryUnit(n)
       IN IF cancelled
          THEN /\ Raise("ConnectionAbortedError", FALSE, view, frames)
               /\ maybe_release_pgcon
               /\ units' = <<>>
               /\ UNCHANGED <<cache, conn, state, orig_state, last_unit>>
               /\ UNCHANGED <<sql_log, hooks, started, pre_view>>
          ELSE IF start_raises(view, query_unit)
          THEN /\ Raise("TransactionError", FALSE, view, frames)
               /\ started' = started + 1
               /\ maybe_release_pgcon
               /\ units' = <<>>
               /\ UNCHANGED <<cache, conn, state, orig_state, last_unit>>
               /\ UNCHANGED <<sql_log, hooks, pre_view>>
          ELSE \E k \in Outcomes(view, conn, query_unit) :
            LET v1 == start(view, query_unit)
                c1 == backend_after(conn, query_unit, k = 0)
                orig1 == IF ~query_unit.system_config /\ query_unit.sql > 0
                            /\ state # None
                         THEN None ELSE orig_state
                vOK == on_success(apply_config_ops(v1, query_unit), query_unit)
                state1 == IF ~in_tx(vOK) THEN serialize_state(vOK) ELSE state
                vERR == unit_failed(v1, c1)
            IN /\ started' = started + 1
               /\ sql_log' = sql_log \o SqlCalls(n, query_unit, state, k)
               /\ IF k # 0
                  THEN /\ hooks' = hooks \o BeforeHooks(query_unit)
                       /\ \E e \in BackendErrors : Raise(e, FALSE, vERR, frames)
                       /\ conn' = c1
                       /\ maybe_release_pgcon
                       /\ units' = <<>>
                       /\ UNCHANGED <<cache, state, orig_state, last_unit>>
                  ELSE /\ hooks' = hooks \o BeforeHooks(query_unit)
                                   \o (IF query_unit.system_config THEN <<>>
                                       ELSE AfterHooks(query_unit))
                       /\ cache' = IF publishes_schema(v1, query_unit) THEN {} ELSE cache
                       /\ state' = state1
                       /\ orig_state' = orig1
                       /\ conn' = record_last_state(c1, vOK, state1, orig1)
                       /\ units' = Tail(units)
                       /\ IF Tail(units) = <<>>
                          THEN /\ maybe_release_pgcon
                               /\ last_unit' = n
                               /\ Done(vOK, frames \o <<"C", "Z">>)
                          ELSE /\ UNCHANGED <<pgcon_held, released, last_unit>>
                               /\ Goto("sq_unit", vOK, frames)
    /\ UNCHANGED <<msg, dispatched, last_anon_compiled, env, skip_first, acquired>>
    /\ UNCHANGED pre_view
    /\ UNCHANGED handled
    /\ UNCHANGED <<gql, db, hs, http, gcache>>
    /\ client_learns

----------------------------------------------------------------------------
(* The environment *)

Cancel ==
    /\ Suspended
    /\ ~cancelled
    /\ cancelled' = TRUE
    /\ UNCHANGED <<pc, msg, dispatched, frames, err, teardown, stop_requested,
                   con_status, passive_mode, protocol_version, last_anon_compiled,
                   view, cache, ghost, locals, backend, handled>>
    /\ UNCHANGED <<gql, db, hs, http, gcache>>
    /\ client_learns

RequestStop ==
    /\ pc \in {"wait", "recover"}
    /\ ~stop_requested
    /\ stop_requested' = TRUE
    /\ UNCHANGED <<pc, msg, dispatched, frames, err, teardown, cancelled,
                   con_status, passive_mode, protocol_version, last_anon_compiled,
                   view, cache, ghost, locals, backend, handled>>
    /\ UNCHANGED <<gql, db, hs, http, gcache>>
    /\ client_learns

ConnectionLost ==
    /\ Suspended \/ pc = "write_error"
    /\ con_status = "ok"
    /\ con_status' = "bad"
    /\ UNCHANGED <<pc, msg, dispatched, frames, err, teardown, cancelled,
                   stop_requested, passive_mode, protocol_version,
                   last_anon_compiled, view, cache, ghost, locals, backend, handled>>
    /\ UNCHANGED <<gql, db, hs, http, gcache>>
    /\ client_learns

----------------------------------------------------------------------------
(* The GraphQL port: execute() of edb/graphql/extension.pyx *)

\* no GraphQL request is followed in this behaviour
GqlOff ==
    [pc |-> "off", held |-> FALSE, acquired |-> 0, released |-> 0,
     requests |-> 0, result |-> ""]

\* no HTTP EdgeQL request is followed in this behaviour
HttpOff ==
    [pc |-> "off", request |-> <<>>, read_only |-> FALSE, status |-> 0,
     content_type |-> "", close_connection |-> FALSE, body |-> [kind |-> "none"]]

\* the callers of execute() followed, and one that is not in a call
GqlCallers == {"g1", "g2"}

ExecIdle ==
    [pc |-> "idle", query |-> "", a |-> 0, dbver |-> 0, user_schema |-> 0,
     use_prep_stmt |-> FALSE, op |-> None]

\* an empty query cache with no execute() call followed
GqlCacheOff ==
    [query_cache |-> {}, execute |-> [c \in GqlCallers |-> ExecIdle], calls |-> 0]

\* the port is waiting for a request
GqlIdle == [GqlOff EXCEPT !.pc = "idle"]

GqlErrors == {"QueryError", "BackendError", "CancelledError"}

\* execute() returned (e = "") or raised e
gql_return(g, e) == [g EXCEPT !.pc = "idle", !.result = IF e = "" THEN "data" ELSE e]

\* the args loop: a variable without a value and without a default
gql_args(g, missing) ==
    IF missing THEN gql_return(g, "QueryError") ELSE [g EXCEPT !.pc = "acquire"]

\* execute() up to its first await: the variable-name check, the rewrite and
\* the cache lookup; on a hit the args loop and acquire_pgcon follow
gql_execute ==
    /\ gql.pc = "idle"
    /\ gql.requests < MaxMessages
    /\ LET g == [gql EXCEPT !.requests = @ + 1, !.acquired = 0, !.released = 0,
                            !.result = ""] IN
       \E prohibited, hit, missing \in BOOLEAN :
         gql' = IF prohibited THEN gql_return(g, "QueryError")
                ELSE IF ~hit THEN [g EXCEPT !.pc = "compile"]
                ELSE gql_args(g, missing)
    /\ UNCHANGED <<pc, msg, dispatched, frames, err, teardown, env, view,
                   last_anon_compiled, cache, ghost, locals, backend, handled,
                   advertised, hs, db, http, gcache>>

\* compile() returned or raised; the args loop and acquire_pgcon follow
gql_compiled ==
    /\ gql.pc = "compile"
    /\ \/ \E e \in GqlErrors : gql' = gql_return(gql, e)
       \/ \E missing \in BOOLEAN : gql' = gql_args(gql, missing)
    /\ UNCHANGED <<pc, msg, dispatched, frames, err, teardown, env, view,
                   last_anon_compiled, cache, ghost, locals, backend, handled,
                   advertised, hs, db, http, gcache>>

\* server.acquire_pgcon(db.name) returned a connection, or raised
gql_acquire_pgcon ==
    /\ gql.pc = "acquire"
    /\ \/ gql' = [gql EXCEPT !.pc = "execute", !.held = TRUE, !.acquired = @ + 1]
       \/ \E e \in {"BackendError", "CancelledError"} : gql' = gql_return(gql, e)
    /\ UNCHANGED <<pc, msg, dispatched, frames, err, teardown, env, view,
                   last_anon_compiled, cache, ghost, locals, backend, handled,
                   advertised, hs, db, http, gcache>>

\* parse_execute_json with the release left out of the exception path
gql_parse_execute_json_no_finally ==
    /\ gql.pc = "execute"
    /\ \/ gql' = gql_return([gql EXCEPT !.held = FALSE, !.released = @ + 1], "")
       \/ \E e \in {"BackendError", "CancelledError"} : gql' = gql_return(gql, e)
    /\ UNCHANGED <<pc, msg, dispatched, frames, err, teardown, env, view,
                   last_anon_compiled, cache, ghost, locals, backend, handled,
                   advertised, hs, db, http, gcache>>

\* pgcon.parse_execute_json returned or raised; finally: release_pgcon; no
\* data is an InternalServerError
gql_parse_execute_json ==
    /\ gql.pc = "execute"
    /\ LET g == [gql EXCEPT !.held = FALSE, !.released = @ + 1] IN
       \E e \in {"", "InternalServerError", "BackendError", "CancelledError"} :
         gql' = gql_return(g, e)
    /\ UNCHANGED <<pc, msg, dispatched, frames, err, teardown, env, view,
                   last_anon_compiled, cache, ghost, locals, backend, handled,
                   advertised, hs, db, http, gcache>>

----------------------------------------------------------------------------
(* The Database shared by the connections of one database: its schema     *)
(* version dbver and the compiled-query cache of a namespace, as several   *)
(* connections look queries up, compile the misses and commit DDL.         *)

Conns == {"c1", "c2"}

Fingerprints == {"f1", "f2"}

\* a connection that is not waiting for the compiler
DbIdle == [pc |-> "idle", f |-> "", dbver |-> 0, got |-> None]

\* a database without cached queries
NewDatabase ==
    [dbver |-> 0, commits |-> 0, cache |-> {}, conn |-> [c \in Conns |-> DbIdle]]

\* a lookup that returns whatever entry the fingerprint has
db_lookup_any_version(d, f) == {e \in d.cache : e.f = f}

\* Database lookup: an entry is valid only under the dbver it was compiled for
db_lookup(d, f) == {e \in d.cache : e.f = f /\ e.dbver = d.dbver}

\* Database._cache_compiled_query(key, query_unit): one entry per fingerprint
db_cache_compiled_query(d, e) == {x \in d.cache : x.f # e.f} \cup {e}

\* a handler's lookup_compiled_query(query_req); on a miss it awaits _parse
db_lookup_compiled_query(c, f) ==
    /\ db.conn[c].pc = "idle"
    /\ LET hit == db_lookup(db, f) IN
       db' = IF hit # {}
             THEN [db EXCEPT !.conn[c] = [DbIdle EXCEPT !.got = CHOOSE e \in hit : TRUE]]
             ELSE [db EXCEPT !.conn[c] = [pc |-> "compile", f |-> f,
                                          dbver |-> db.dbver, got |-> None]]
    /\ UNCHANGED front

\* _parse returned: the group compiled for the schema of the request is cached
db_parse_done(c) ==
    /\ db.conn[c].pc = "compile"
    /\ LET e == [f |-> db.conn[c].f, dbver |-> db.conn[c].dbver] IN
       db' = [db EXCEPT !.cache = db_cache_compiled_query(db, e),
                        !.conn[c] = DbIdle]
    /\ UNCHANGED front

\* a connection commits a user-schema mutation: the new schema is installed,
\* dbver bumped and the namespace's compiled cache invalidated, atomically
db_set_new_user_schema(c) ==
    /\ db.conn[c].pc = "idle"
    /\ db.dbver < MaxMessages
    /\ db' = [db EXCEPT !.dbver = @ + 1, !.commits = @ + 1, !.cache = {},
                        !.conn[c] = DbIdle]
    /\ UNCHANGED front

DbLookup == \E c \in Conns, f \in Fingerprints : db_lookup_compiled_query(c, f)

DbParseDone == \E c \in Conns : db_parse_done(c)

DbCommit == \E c \in Conns : db_set_new_user_schema(c)

----------------------------------------------------------------------------
(* Connection set-up: _do_handshake, legacy_auth and the head of legacy_main *)

VersionLT(a, b) == ~VersionGE(a, b)
VersionGT(a, b) == ~VersionGE(b, a)

\* self.min_protocol (MIN_LEGACY_PROTOCOL) and self.max_protocol
min_protocol == <<0, 9>>
max_protocol == <<1, 0>>

\* the last protocol version whose handshake carries the extension block
MAX_LEGACY_PROTOCOL == <<0, 14>>

\* versions a client asks for: below, inside and above the server's range
RequestedVersions == {<<0, 8>>, <<0, 10>>, <<1, 1>>}

EDGEDB_SPECIAL_DBS == {"template"}

AuthMethods == {"SCRAM", "JWT", "Trust", "Kerberos"}

\* a connection whose ClientHandshake is in the buffer: the version asked
\* for, the extensions and parameters sent (database "" when it is missing),
\* and the constructor's arguments
NewConnection(rv, ne, u, d, t, x) ==
    [phase |-> "setup", requested |-> rv, sent_exts |-> ne, user |-> u,
     database |-> d, transport_proto |-> t, external_auth |-> x,
     handshaken |-> FALSE, nexts |-> 0, announced |-> None,
     started |-> FALSE, method |-> "", authed |-> FALSE, notified |-> 0,
     reported |-> FALSE]

\* abort() and connection_lost() drop self._transport
transport_open == ~cancelled /\ con_status = "ok"

\* nexts: the extension count is read for legacy versions only
read_nexts(pv, sent) == IF VersionGE(MAX_LEGACY_PROTOCOL, pv) THEN sent ELSE 0

\* a negotiation that announces the lower end of the range whatever was asked
target_proto_floor(pv) == min_protocol

target_proto(pv) ==
    IF VersionLT(pv, min_protocol) THEN min_protocol
    ELSE IF VersionGT(pv, max_protocol) THEN max_protocol
    ELSE pv

\* negotiate with the extension count left out
negotiate_only_clamped(pv, nexts) ==
    VersionLT(pv, min_protocol) \/ VersionGT(pv, max_protocol)

negotiate(pv, nexts) ==
    nexts > 0 \/ VersionLT(pv, min_protocol) \/ VersionGT(pv, max_protocol)

\* what the set-up steps leave alone
SetupRest ==
    <<msg, dispatched, cancelled, stop_requested, con_status, passive_mode,
      last_anon_compiled, view, cache, ghost, locals, backend, handled,
      advertised, gql, db, http, gcache>>

_do_handshake ==
    /\ pc = "handshake"
    /\ LET pv == hs.requested
           nexts == read_nexts(pv, hs.sent_exts)
       IN /\ protocol_version' = pv
          /\ IF finish_message_raises(hs.sent_exts > nexts)
             THEN /\ pc' = "closed"
                  /\ err' = "BinaryProtocolError"
                  /\ frames' = frames
                  /\ hs' = [hs EXCEPT !.nexts = nexts]
             ELSE /\ pc' = "auth"
                  /\ err' = ""
                  /\ frames' = IF negotiate(pv, nexts)
                               THEN Append(frames, "v") ELSE frames
                  /\ hs' = [hs EXCEPT !.handshaken = TRUE,
                                      !.nexts = nexts,
                                      !.announced = IF negotiate(pv, nexts)
                                                    THEN target_proto(pv)
                                                    ELSE None]
    /\ teardown' = teardown
    /\ UNCHANGED SetupRest

\* the except clause of legacy_main that lets the connection go on
legacy_main_except_no_return(e, h) ==
    /\ err' = e
    /\ pc' = "main"
    /\ hs' = Handshaken
    /\ IF transport_open
       THEN /\ frames' = Append(frames, "E")
            /\ teardown' = Append(teardown, "close")
       ELSE UNCHANGED <<frames, teardown>>

\* legacy_auth raised e: the except clause of legacy_main and its return
legacy_main_except(e, h) ==
    /\ err' = e
    /\ pc' = "closed"
    /\ IF transport_open
       THEN /\ frames' = Append(frames, "E")
            /\ teardown' = Append(teardown, "close")
            /\ hs' = [h EXCEPT !.reported =
                          e \notin {"BinaryProtocolError", "AuthenticationError"}]
       ELSE /\ UNCHANGED <<frames, teardown>>
            /\ hs' = h

\* legacy_auth writing ReadyForQuery ahead of the parameter statuses
legacy_main_authed_ready_first(h) ==
    /\ \E dev_mode \in BOOLEAN :
         frames' = IF h.transport_proto = "HTTP" THEN frames
                   ELSE frames \o <<"R", "K", "Z">>
                        \o (IF dev_mode THEN <<"S">> ELSE <<>>)
                        \o <<"S", "S">>
    /\ hs' = Handshaken
    /\ pc' = "main"
    /\ err' = ""
    /\ teardown' = teardown

\* legacy_auth returned: its frames, then self.authed = True and the hook
legacy_main_authed(h) ==
    /\ \E dev_mode \in BOOLEAN :
         frames' = IF h.transport_proto = "HTTP" THEN frames
                   ELSE frames \o <<"R", "K">>
                        \o (IF dev_mode THEN <<"S">> ELSE <<>>)
                        \o <<"S", "S", "Z">>
    /\ hs' = Handshaken
    /\ pc' = "main"
    /\ err' = ""
    /\ teardown' = teardown

\* the authentication method is known
run_auth(method, h0) ==
    LET h == [h0 EXCEPT !.method = method] IN
    IF method = "SCRAM"
    THEN /\ pc' = "auth_scram"
         /\ hs' = h
         /\ UNCHANGED <<frames, err, teardown>>
    ELSE IF method \in {"JWT", "Trust"}
    THEN \E ok \in BOOLEAN :
            IF ok THEN legacy_main_authed(h)
            ELSE legacy_main_except("AuthenticationError", h)
    ELSE legacy_main_except("InternalServerError", h)

\* legacy_auth with the system databases accepted like any other
legacy_auth_special_accepted ==
    /\ pc = "auth"
    /\ IF ~hs.user THEN legacy_main_except("BinaryProtocolError", hs)
       ELSE IF hs.database = "" THEN legacy_main_except("BinaryProtocolError", hs)
       ELSE /\ pc' = "start_connection"
            /\ UNCHANGED <<frames, err, teardown, hs>>
    /\ UNCHANGED protocol_version
    /\ UNCHANGED SetupRest

\* legacy_auth up to its first await
legacy_auth ==
    /\ pc = "auth"
    /\ IF ~hs.user THEN legacy_main_except("BinaryProtocolError", hs)
       ELSE IF hs.database = "" THEN legacy_main_except("BinaryProtocolError", hs)
       ELSE IF hs.database \in EDGEDB_SPECIAL_DBS
       THEN legacy_main_except("AccessError", hs)
       ELSE /\ pc' = "start_connection"
            /\ UNCHANGED <<frames, err, teardown, hs>>
    /\ UNCHANGED protocol_version
    /\ UNCHANGED SetupRest

\* _start_connection(database, namespace) returned or raised
start_connection_done ==
    /\ pc = "start_connection"
    /\ \E ok \in BOOLEAN :
         IF ~ok THEN legacy_main_except("UnknownDatabaseError", hs)
         ELSE LET h == [hs EXCEPT !.started = TRUE] IN
              IF hs.external_auth THEN run_auth("Trust", h)
              ELSE /\ pc' = "get_auth_method"
                   /\ hs' = h
                   /\ UNCHANGED <<frames, err, teardown>>
    /\ UNCHANGED protocol_version
    /\ UNCHANGED SetupRest

\* server.get_auth_method(user, transport) returned
get_auth_method_done ==
    /\ pc = "get_auth_method"
    /\ \E method \in AuthMethods : run_auth(method, hs)
    /\ UNCHANGED protocol_version
    /\ UNCHANGED SetupRest

\* _auth_scram(user) returned or raised
auth_scram_done ==
    /\ pc = "auth_scram"
    /\ \E ok \in BOOLEAN :
         IF ok THEN legacy_main_authed(hs)
         ELSE legacy_main_except("AuthenticationError", hs)
    /\ UNCHANGED protocol_version
    /\ UNCHANGED SetupRest

\* the task is cancelled in an await of legacy_auth: CancelledError is not
\* an Exception and leaves legacy_main
auth_cancelled ==
    /\ pc \in {"start_connection", "get_auth_method", "auth_scram"}
    /\ cancelled
    /\ pc' = "closed"
    /\ err' = "CancelledError"
    /\ UNCHANGED <<frames, teardown, hs, protocol_version>>
    /\ UNCHANGED SetupRest

----------------------------------------------------------------------------

\* a front end before its first step
InitFront ==
    /\ msg = NoMsg
    /\ dispatched = FALSE
    /\ frames = <<>>
    /\ err = ""
    /\ teardown = <<>>
    /\ cancelled = FALSE
    /\ stop_requested = FALSE
    /\ con_status = "ok"
    /\ passive_mode \in BOOLEAN
    /\ protocol_version \in ProtocolVersions
    /\ passive_mode => protocol_version = <<0, 14>>
    /\ pc = "off" => (~passive_mode /\ protocol_version = <<0, 14>>)
    /\ last_anon_compiled = None
    /\ view = NewView
    /\ cache = {}
    /\ conn = NewConn
    /\ pgcon_held = FALSE
    /\ units = <<>>
    /\ skip_first = FALSE
    /\ state = None
    /\ orig_state = None
    /\ last_unit = ""
    /\ sql_log = <<>>
    /\ hooks = <<>>
    /\ acquired = 0
    /\ released = 0
    /\ started = 0
    /\ handled = 0
    /\ pre_view = NewView

\* one front end, authenticated and about to serve: a binary connection
\* entering its message loop, or the GraphQL port
InitServing ==
    /\ \/ pc = "main" /\ gql = GqlOff
       \/ pc = "off" /\ gql = GqlIdle
    /\ InitFront
    /\ hs = Connected
    /\ db = NewDatabase
    /\ http = HttpOff
    /\ gcache = GqlCacheOff

Init ==
    /\ InitServing
    /\ advertised = Untracked

\* the steps of a binary connection
BinaryNext ==
    \/ LoopTop
    \/ NoMessage
    \/ WaitFails
    \/ WriteError
    \/ sync
    \/ recover_from_error
    \/ terminate
    \/ fallthrough
    \/ legacy_dump_restore
    \/ dump_restore_done
    \/ legacy_parse
    \/ parse_done
    \/ legacy_describe
    \/ legacy_execute
    \/ exec_rollback_done
    \/ execute_done
    \/ legacy_optimistic_execute
    \/ optimistic_parse_done
    \/ legacy_fast_query
    \/ fast_query_parse_done
    \/ legacy_simple_query
    \/ recover_script_compiled
    \/ recover_script_done
    \/ simple_query_compiled
    \/ simple_query_getcon
    \/ simple_query_unit
    \/ Cancel
    \/ RequestStop
    \/ ConnectionLost

Next ==
    \/ BinaryNext
    \/ gql_execute
    \/ gql_compiled
    \/ gql_acquire_pgcon
    \/ gql_parse_execute_json

Spec == Init /\ [][Next]_vars

\* the same front ends, with the client's memory of type ids followed
ClientInit ==
    /\ InitServing
    /\ advertised = None

ClientSpec == ClientInit /\ [][Next]_vars

\* the Database, with no front end followed
DbInit ==
    /\ pc = "off"
    /\ gql = GqlOff
    /\ InitFront
    /\ advertised = Untracked
    /\ hs = Connected
    /\ db = NewDatabase
    /\ http = HttpOff
    /\ gcache = GqlCacheOff

DbNext ==
    \/ DbLookup
    \/ DbParseDone
    \/ DbCommit

DbSpec == DbInit /\ [][DbNext]_vars

\* a binary connection followed from its ClientHandshake on
ConnectInit ==
    /\ pc = "handshake"
    /\ gql = GqlOff
    /\ InitFront
    /\ protocol_version = <<0, 14>>
    /\ advertised = Untracked
    /\ db = NewDatabase
    /\ http = HttpOff
    /\ gcache = GqlCacheOff
    /\ \E rv \in RequestedVersions, ne \in 0..1, u \in BOOLEAN,
          d \in {"", "db", "template"}, t \in {"TCP", "HTTP"}, x \in BOOLEAN :
         /\ passive_mode => rv = <<1, 1>>
         /\ hs = NewConnection(rv, ne, u, d, t, x)

ConnectNext ==
    \/ _do_handshake
    \/ legacy_auth
    \/ start_connection_done
    \/ get_auth_method_done
    \/ auth_scram_done
    \/ auth_cancelled
    \/ BinaryNext

ConnectSpec == ConnectInit /\ [][ConnectNext]_vars

----------------------------------------------------------------------------
(* The layout of ParseComplete and CommandDataDescription *)

\* one field of a frame: what it holds, whether it is written with a length
\* prefix, and its value
Field(f, lp, v) == [field |-> f, len_prefixed |-> lp, value |-> v]

\* the headers, the cardinality byte: common to both frames
frame_head(g) ==
    <<Field("num_headers", FALSE, 1),
      Field("SERVER_HEADER_CAPABILITIES", TRUE, GroupCapabilities(g)),
      Field("cardinality", FALSE, "render_cardinality")>>

\* type ids each followed by its length-prefixed type data
ids_with_data(g) ==
    <<Field("in_type_id", FALSE, GroupInTypeId(g)),
      Field("in_type_data", TRUE, <<GroupInTypeId(g)>>),
      Field("out_type_id", FALSE, GroupOutTypeId(g)),
      Field("out_type_data", TRUE, <<GroupOutTypeId(g)>>)>>

\* a ParseComplete that carries the type data on every protocol version
ParseCompleteMsg_always_data(pv, g) ==
    [mtype |-> "1", fields |-> frame_head(g) \o ids_with_data(g)]

\* the ParseComplete frame legacy_parse builds
ParseCompleteMsg(pv, g) ==
    [mtype |-> "1",
     fields |-> frame_head(g) \o
                (IF VersionGE(pv, <<0, 14>>) THEN ids_with_data(g)
                 ELSE <<Field("in_type_id", FALSE, GroupInTypeId(g)),
                        Field("out_type_id", FALSE, GroupOutTypeId(g))>>)]

make_legacy_command_data_description_msg(g) ==
    [mtype |-> "T", fields |-> frame_head(g) \o ids_with_data(g)]

\* versions a connection can run: the server's range
FrameVersions == {<<0, m>> : m \in 9..14} \cup {<<1, 0>>}

\* what writing one frame leaves alone
FrameRest ==
    <<msg, dispatched, err, teardown, cancelled, stop_requested, con_status,
      passive_mode, protocol_version, last_anon_compiled, view, cache, conn,
      pgcon_held, units, skip_first, state, orig_state, last_unit, sql_log,
      hooks, acquired, released, started, handled, pre_view, advertised, hs,
      gql, db, http, gcache>>

\* legacy_parse after _parse returned: the frame it writes, in full
write_parse_complete ==
    /\ pc = "compiled"
    /\ pc' = "wrote_1"
    /\ frames' = <<ParseCompleteMsg(protocol_version, last_anon_compiled)>>
    /\ UNCHANGED FrameRest

\* the description of the compiled query, in full
write_command_data_description ==
    /\ pc = "compiled"
    /\ pc' = "wrote_T"
    /\ frames' = <<make_legacy_command_data_description_msg(last_anon_compiled)>>
    /\ UNCHANGED FrameRest

\* a connection on some protocol version whose query has just compiled
FrameInit ==
    /\ pc = "compiled"
    /\ gql = GqlOff
    /\ protocol_version \in FrameVersions
    /\ last_anon_compiled \in Queries \ {<<"bad">>}
    /\ msg = [Msg("P") EXCEPT !.query = last_anon_compiled]
    /\ dispatched = TRUE
    /\ frames = <<>>
    /\ err = ""
    /\ teardown = <<>>
    /\ cancelled = FALSE
    /\ stop_requested = FALSE
    /\ con_status = "ok"
    /\ passive_mode = FALSE
    /\ view = NewView
    /\ cache = {}
    /\ conn = NewConn
    /\ pgcon_held = FALSE
    /\ units = <<>>
    /\ skip_first = FALSE
    /\ state = None
    /\ orig_state = None
    /\ last_unit = ""
    /\ sql_log = <<>>
    /\ hooks = <<>>
    /\ acquired = 0
    /\ released = 0
    /\ started = 0
    /\ handled = 1
    /\ pre_view = NewView
    /\ advertised = Untracked
    /\ hs = Connected
    /\ db = NewDatabase
    /\ http = HttpOff
    /\ gcache = GqlCacheOff

FrameNext ==
    \/ write_parse_complete
    \/ write_command_data_description

FrameSpec == FrameInit /\ [][FrameNext]_vars

-----------------------------------------------------------------------------
(* The HTTP EdgeQL port: handle_request() *)

\* the requests the port is sent.  A field of the JSON body or of the query
\* string is named by what its value is: "garbage" is text that is not JSON,
\* "int" a number (in a query string: its digits), "str" any other text.
HttpRequests ==
    [args : {<<>>, <<"query">>, <<"other">>},
     method : {"POST", "GET", "PUT"},
     json_content_type : BOOLEAN,
     body : {"garbage", "list", "dict"},
     query : {"absent", "empty", "text"},
     variables : {"absent", "dict", "list", "garbage"},
     globals : {"absent", "dict", "list", "garbage"},
     module : {"absent", "str", "int"},
     namespace : {"absent", "str", "int"},
     limit : {"absent", "int", "str"}]

\* the type checks made on the decoded fields; "" when all pass
field_error(query, variables, globals, module, namespace, limit) ==
    IF query \in {"absent", "empty"} THEN "invalid EdgeQL request: query is missing"
    ELSE IF variables \notin {"absent", "dict"} THEN "\"variables\" must be a JSON object"
    ELSE IF globals \notin {"absent", "dict"} THEN "\"globals\" must be a JSON object"
    ELSE IF module \notin {"absent", "str"} THEN "\"module\" must be a str object"
    ELSE IF namespace \notin {"absent", "str"} THEN "\"namespace\" must be a str object"
    ELSE IF limit \notin {"absent", "int"} THEN "\"limit\" must be an integer object"
    ELSE ""

\* the try block that decodes the request: the text of the exception it
\* raises, "" when it raises none.  Every value of a query string is text,
\* so a module or namespace given there is a str whatever it holds.
request_error(r) ==
    IF r.method = "POST" THEN
        IF ~r.json_content_type THEN "unable to interpret EdgeQL POST request"
        ELSE IF r.body = "garbage" THEN "JSONDecodeError"
        ELSE IF r.body # "dict" THEN "the body of the request must be a JSON object"
        ELSE field_error(r.query, r.variables, r.globals, r.module, r.namespace, r.limit)
    ELSE IF r.method = "GET" THEN
        IF r.variables = "garbage" THEN "\"variables\" must be a JSON object"
        ELSE IF r.globals = "garbage" THEN "\"globals\" must be a JSON object"
        ELSE IF r.limit = "str" THEN "ValueError"
        ELSE field_error(r.query, r.variables, r.globals,
                         IF r.module = "absent" THEN "absent" ELSE "str",
                         IF r.namespace = "absent" THEN "absent" ELSE "str",
                         r.limit)
    ELSE "expected a GET or a POST request"

\* the except clause around parse_execute_json, answering 400
error_response_bad_request(h, ex) ==
    [h EXCEPT !.pc = "done", !.status = 400,
              !.body = [kind |-> "json",
                        error |-> [message |-> ex,
                                   type |-> IF ex = "QueryError" THEN ex
                                            ELSE "InternalServerError",
                                   code |-> "code"]]]

\* the except clause around parse_execute_json: the status stays as set
\* before the call
error_response(h, ex) ==
    [h EXCEPT !.pc = "done",
              !.body = [kind |-> "json",
                        error |-> [message |-> ex,
                                   type |-> IF ex = "QueryError" THEN ex
                                            ELSE "InternalServerError",
                                   code |-> "code"]]]

HttpRest == <<pc, msg, dispatched, frames, err, teardown, cancelled, stop_requested,
              con_status, passive_mode, protocol_version, last_anon_compiled, view,
              cache, conn, pgcon_held, units, skip_first, state, orig_state,
              last_unit, sql_log, hooks, acquired, released, started, handled,
              pre_view, advertised, hs, gql, db, gcache>>

\* handle_request up to its await
handle_request ==
    /\ http.pc = "request"
    /\ LET r == http.request
           ex == request_error(r)
       IN  http' =
             IF r.args # <<"query">> /\ r.args # <<>>
             THEN [http EXCEPT !.pc = "done", !.status = 404,
                               !.body = [kind |-> "text", text |-> "Unknown path"],
                               !.close_connection = TRUE]
             ELSE IF ex # ""
             THEN [http EXCEPT !.pc = "done", !.status = 400,
                               !.read_only = (r.args = <<"query">>),
                               !.body = [kind |-> "text", text |-> ex],
                               !.close_connection = TRUE]
             ELSE [http EXCEPT !.pc = "executing", !.status = 200,
                               !.read_only = (r.args = <<"query">>),
                               !.content_type = "application/json"]
    /\ UNCHANGED HttpRest

\* parse_execute_json returns a result, raises an error of the server or any
\* other Exception, or the task is cancelled (not an Exception: it leaves
\* handle_request with no body set)
handle_request_executed ==
    /\ http.pc = "executing"
    /\ \E out \in {"", "QueryError", "ValueError", "CancelledError"} :
         http' = CASE out = "" ->
                        [http EXCEPT !.pc = "done",
                                     !.body = [kind |-> "json", data |-> "result"]]
                   [] out = "CancelledError" -> [http EXCEPT !.pc = "raised"]
                   [] OTHER -> error_response(http, out)
    /\ UNCHANGED HttpRest

HttpInit ==
    /\ pc = "off"
    /\ gql = GqlOff
    /\ InitFront
    /\ advertised = Untracked
    /\ hs = Connected
    /\ db = NewDatabase
    /\ \E r \in HttpRequests : http = [HttpOff EXCEPT !.pc = "request", !.request = r]
    /\ gcache = GqlCacheOff

HttpNext ==
    \/ handle_request
    \/ handle_request_executed

HttpSpec == HttpInit /\ [][HttpNext]_vars

-----------------------------------------------------------------------------
(* The GraphQL query cache: the cache part of execute() and compile() *)

\* the requests differ in the query and in the value of its one variable a.
\* "plain": the operation does not depend on a; "keyed": the rewriter makes
\* a part of the key; "deps": only the compiler finds the dependency on a.
GqlQueries == {"plain", "keyed", "deps"}

\* rewritten.key_vars()
key_var_names(q) == IF q = "keyed" THEN <<"a">> ELSE <<>>

\* op.cache_deps_vars
cache_deps_vars(q) == IF q = "plain" THEN {} ELSE {"a"}

\* tuple(vars[k] for k in names)
key_vars(names, a) == [i \in 1..Len(names) |-> a]

\* the schema db.user_schema holds: the one installed by the latest commit
user_schema(d) == d.commits

\* query_cache.get(key, None)
cache_get(c, key) ==
    LET hit == {x \in c : x.key = key}
    IN IF hit = {} THEN None ELSE (CHOOSE x \in hit : TRUE).entry

\* query_cache[key] = entry
cache_put(c, key, entry) ==
    {x \in c : x.key # key} \cup {[key |-> key, entry |-> entry]}

CacheRedirect(names) == [kind |-> "redirect", key_vars |-> names]

\* the two lookups of execute().  operation_name, query_only, module and
\* limit are the same in every request followed and are left out of both keys.
cache_lookup(c, q, a, dbver) ==
    LET cache_key == <<"graphql", q, key_vars(key_var_names(q), a), dbver>>
        entry == cache_get(c, cache_key)
    IN IF entry # None /\ entry.kind = "redirect"
       THEN cache_get(c, <<q, key_vars(entry.key_vars, a), dbver>>)
       ELSE entry

\* what execute() stores once compile() returned op
cache_store(c, q, a, dbver, op) ==
    LET cache_key == <<"graphql", q, key_vars(key_var_names(q), a), dbver>>
        key_var_set == {key_var_names(q)[i] : i \in DOMAIN key_var_names(q)}
    IN IF cache_deps_vars(q) # {} /\ cache_deps_vars(q) # key_var_set
       THEN cache_put(cache_put(c, cache_key, CacheRedirect(<<"a">>)),
                      <<"graphql", q, key_vars(<<"a">>, a), dbver>>, op)
       ELSE cache_put(c, cache_key, op)

\* an operation compiled against the schema found when the compiler returns
compiled_op_schema_read_late(e, current) ==
    [kind |-> "op", query |-> e.query, a |-> e.a, user_schema |-> current]

\* the operation compile() returns: compiled against the schema handed to
\* compile_graphql when the call was made
compiled_op(e, current) ==
    [kind |-> "op", query |-> e.query, a |-> e.a, user_schema |-> e.user_schema]

GqlCacheRest ==
    <<pc, msg, dispatched, frames, err, teardown, cancelled, stop_requested,
      con_status, passive_mode, protocol_version, last_anon_compiled, view,
      cache, conn, pgcon_held, units, skip_first, state, orig_state,
      last_unit, sql_log, hooks, acquired, released, started, handled,
      pre_view, advertised, hs, gql, http, db>>

\* execute() from its first line to `await compile(...)`, compile() up to
\* its await included, or to the end of the cache lookup on a hit
execute_lookup(c) ==
    /\ gcache.execute[c].pc = "idle"
    /\ gcache.calls < MaxMessages
    /\ \E q \in GqlQueries, a \in {0, 1} :
         LET dbver == db.dbver
             entry == cache_lookup(gcache.query_cache, q, a, dbver)
             e == [ExecIdle EXCEPT !.query = q, !.a = a, !.dbver = dbver]
         IN gcache' =
              [gcache EXCEPT
                 !.calls = @ + 1,
                 !.execute[c] =
                    IF entry = None
                    THEN [e EXCEPT !.pc = "compile",
                                   !.user_schema = user_schema(db)]
                    ELSE [e EXCEPT !.pc = "done", !.op = entry,
                                   !.use_prep_stmt = TRUE]]
    /\ UNCHANGED GqlCacheRest

\* compile() returned: the operation is stored
execute_compiled(c) ==
    /\ gcache.execute[c].pc = "compile"
    /\ LET e == gcache.execute[c]
           op == compiled_op(e, user_schema(db))
       IN gcache' =
            [gcache EXCEPT
               !.query_cache = cache_store(@, e.query, e.a, e.dbver, op),
               !.execute[c] = [e EXCEPT !.pc = "done", !.op = op]]
    /\ UNCHANGED GqlCacheRest

\* the rest of execute()
execute_return(c) ==
    /\ gcache.execute[c].pc = "done"
    /\ gcache' = [gcache EXCEPT !.execute[c] = ExecIdle]
    /\ UNCHANGED GqlCacheRest

GqlCacheInit ==
    /\ pc = "off"
    /\ gql = GqlOff
    /\ InitFront
    /\ advertised = Untracked
    /\ hs = Connected
    /\ db = NewDatabase
    /\ http = HttpOff
    /\ gcache = GqlCacheOff

GqlCacheNext ==
    \/ \E c \in GqlCallers : execute_lookup(c)
    \/ \E c \in GqlCallers : execute_compiled(c)
    \/ \E c \in GqlCallers : execute_return(c)
    \/ DbCommit

GqlCacheSpec == GqlCacheInit /\ [][GqlCacheNext]_vars

----------------------------------------------------------------------------
(* Properties *)

Count(seq, x) == Cardinality({i \in DOMAIN seq : seq[i] = x})

IsPrefix(a, b) == Len(a) <= Len(b) /\ SubSeq(b, 1, Len(a)) = a

\* the capabilities of group g that message m does not allow
MissingCaps(g, m) == GroupCapabilities(g) \ allow_capabilities(m)

\* the handler of msg returned without raising
Returned == pc = "main" /\ dispatched /\ err = ""

\* the frames a handler writes for message m when it returns normally
Response(m) ==
    CASE m.kind = "P" -> <<"1">>
      [] m.kind = "D" -> <<"T">>
      [] m.kind = "E" -> <<"C">>
      [] m.kind = "O" ->
            IF GroupInTypeId(m.query) # m.in_tid \/ GroupOutTypeId(m.query) # m.out_tid
            THEN <<"T">> ELSE <<"C">>
      [] m.kind = "F" -> <<"T">>
      [] m.kind = "Q" -> <<"C", "Z">>
      [] m.kind = "S" -> <<"Z">>
      [] m.kind \in {">", "<"} -> <<"C">>
      [] OTHER -> <<>>

\* C1 (as amended): a message whose handler returns without an error is
\* answered by exactly one frame (P: ParseComplete, D and F: the description,
\* E: CommandComplete, O: CommandComplete, or the description alone when the
\* type ids mismatch, S: ReadyForQuery, dump/restore: CommandComplete),
\* except Q, answered by CommandComplete then ReadyForQuery, and X
\* (Terminate), which gets no response frame at all.
C1_OneResponsePerRequest ==
    /\ Returned => frames = Response(msg)
    /\ (pc = "closed" /\ msg.kind = "X" /\ ~stop_requested) => frames = <<>>

\* C1 witness: an O with mismatching type ids was answered by the
\* description alone
C1_Witness ==
    /\ Returned
    /\ msg.kind = "O"
    /\ GroupOutTypeId(msg.query) # msg.out_tid
    /\ frames = <<"T">>

\* C1 as stated: every message handled without an error gets exactly one
\* frame, Q alone excepted (CommandCompletes, then one ReadyForQuery).
C1_AsStated ==
    (dispatched /\ err = ""
        /\ (pc = "main" \/ (pc = "closed" /\ msg.kind = "X" /\ ~stop_requested)))
    => IF msg.kind = "Q"
       THEN /\ frames # <<>>
            /\ frames[Len(frames)] = "Z"
            /\ \A i \in 1..(Len(frames) - 1) : frames[i] = "C"
       ELSE Len(frames) = 1

\* C2: responses come in the order of the requests: a message goes to its
\* handler only when no handler is running, frames are only ever appended to
\* the response of the message in hand, and the step that dispatches a Sync
\* writes ReadyForQuery as the next frame.
C2_ResponsesInOrder ==
    [][/\ handled' # handled =>
            /\ pc \in {"wait", "recover"}
            /\ units = <<>>
            /\ ~pgcon_held
            /\ dispatched'
       /\ (handled' = handled /\ pc \notin {"main", "recover"}) =>
            /\ msg' = msg
            /\ IsPrefix(frames, frames')
       /\ (handled' = handled /\ pc = "recover") =>
            \/ frames' = frames
            \/ ~dispatched' /\ frames' = <<>>
            \/ pc' = "closed" /\ IsPrefix(frames, frames')
       /\ (handled' # handled /\ msg'.kind = "S") =>
            /\ frames' = <<"Z">>
            /\ pc' = "main"]_vars

\* C2 witness: a Sync dispatched after another message was answered by
\* ReadyForQuery
C2_Witness ==
    /\ Returned
    /\ msg.kind = "S"
    /\ handled >= 2
    /\ frames = <<"Z">>

\* C3: a Q that is handled without the connection being aborted or
\* cancelled ends with exactly one ReadyForQuery, its last frame: after
\* CommandComplete on success, after exactly one ErrorResponse on error; a Q
\* never enters the Sync recovery, and nothing but the log message of a
\* stopping server follows a ReadyForQuery.
C3_SimpleQueryReady ==
    (msg.kind = "Q" /\ dispatched) =>
        /\ pc # "recover"
        /\ Count(frames, "Z") <= 1
        /\ \A i \in DOMAIN frames :
             frames[i] = "Z" => (i = Len(frames) \/ SubSeq(frames, i + 1, Len(frames)) = <<"L">>)
        /\ pc = "main" =>
             frames = IF err = "" THEN <<"C", "Z">> ELSE <<"E", "Z">>

\* C3 witness: a failed Q answered by ErrorResponse, ReadyForQuery
C3_Witness ==
    /\ pc = "main"
    /\ msg.kind = "Q"
    /\ dispatched
    /\ err = "BackendError"
    /\ frames = <<"E", "Z">>

\* C4: when the error of a handler other than Q's is reported, the view has
\* had tx_error() applied, one ErrorResponse and no ReadyForQuery is written,
\* and from then on every message is discarded without a frame and without
\* reaching a handler until a Sync arrives, which is answered by
\* ReadyForQuery.
C4_ErrorRecovery ==
    [][/\ (pc = "write_error" /\ msg.kind # "Q" /\ con_status' = "ok"
              /\ pc' # "write_error") =>
            /\ pc' = "recover"
            /\ frames' = Append(frames, "E")
            /\ Count(frames', "E") = 1
            /\ Count(frames', "Z") = 0
            /\ in_tx(view') => in_tx_error(view')
            /\ view' = view
       /\ pc' = "write_error" => (in_tx(view') => in_tx_error(view'))
       /\ pc = "recover" =>
            /\ pc' \in {"recover", "main", "closed"}
            /\ pc' = "main" <=> handled' # handled
            /\ pc' = "main" => (msg'.kind = "S" /\ frames' = <<"Z">>)
            /\ pc' = "recover" => (Count(frames', "Z") = 0 /\ handled' = handled)
            /\ (pc' = "recover" /\ msg' # msg) =>
                 (~dispatched' /\ frames' = <<>> /\ msg'.kind # "S")
            /\ UNCHANGED <<view, last_anon_compiled, cache, conn, sql_log, acquired>>]_vars

\* C4 witness: a P with empty query bytes was answered by one ErrorResponse
\* and the loop is discarding messages
C4_Witness ==
    /\ pc = "recover"
    /\ dispatched
    /\ msg.kind = "P"
    /\ msg.query = <<>>
    /\ err = "BinaryProtocolError"
    /\ frames = <<"E">>

\* the E or O in hand got as far as _legacy_execute
ReachedExecute ==
    /\ dispatched
    /\ last_anon_compiled # None
    /\ MissingCaps(last_anon_compiled, msg) = {}
    /\ \/ msg.kind = "E" /\ msg.hdr = {} /\ ~msg.stmt_name
       \/ /\ msg.kind = "O"
          /\ pc # "oe_parse"
          /\ err # "ConnectionAbortedError"
          /\ last_anon_compiled = msg.query
          /\ Response(msg) = <<"C">>

\* C5: in the failed-transaction state, an E or O that gets to execute a
\* compiled query whose first unit is neither ROLLBACK nor ROLLBACK TO
\* SAVEPOINT fails with the transaction error; no backend connection is
\* acquired, no SQL is run, no unit is started, and the view is left as it
\* was, still in the failed-transaction state.
C5_FailedTxRejects ==
    (ReachedExecute /\ pc # "closed" /\ in_tx_error(pre_view)
        /\ ~IsRollback(last_anon_compiled[1])) =>
        /\ err = "TransactionError"
        /\ acquired = 0
        /\ started = 0
        /\ sql_log = <<>>
        /\ view = pre_view
        /\ in_tx_error(view)

\* C5 witness: an E replaying a SELECT in a failed transaction was refused
C5_Witness ==
    /\ ReachedExecute
    /\ msg.kind = "E"
    /\ in_tx_error(pre_view)
    /\ last_anon_compiled = <<"SELECT">>
    /\ err = "TransactionError"
    /\ pc = "recover"

\* C6: the view leaves the failed-transaction state only in the step in
\* which the SQL of a ROLLBACK or ROLLBACK TO SAVEPOINT unit has run without
\* raising: ROLLBACK leaves it Idle (no frame, no savepoints), ROLLBACK TO
\* SAVEPOINT leaves it in the transaction with tx_error cleared; if the
\* rollback SQL raises, the view is still in the failed-transaction state.
C6_RollbackAfterSql ==
    [][in_tx_error(view) =>
        /\ ~in_tx_error(view') =>
             /\ pc \in {"exec_rollback", "recover_sql", "exec"}
             /\ units # <<>>
             /\ IsRollback(units[1])
             /\ err' \notin BackendErrors
             /\ Len(sql_log') = Len(sql_log) + 1
             /\ sql_log'[Len(sql_log')].unit = units[1]
             /\ IF QueryUnit(units[1]).tx_rollback
                THEN ~in_tx(view') /\ view'.savepoints = <<>>
                ELSE in_tx(view')
        /\ (pc \in {"exec_rollback", "recover_sql", "exec"} /\ err' \in BackendErrors) =>
             (in_tx_error(view') /\ in_tx(view'))]_vars

\* C6 witness: a Q beginning with ROLLBACK TO SAVEPOINT recovered a failed
\* transaction and the view is still in it
C6_Witness ==
    /\ pc = "main"
    /\ msg.kind = "Q"
    /\ in_tx_error(pre_view)
    /\ msg.query = <<"ROLLBACK_TO_a">>
    /\ err = ""
    /\ in_tx(view)
    /\ ~in_tx_error(view)

\* a well-formed Q that arrived in the failed-transaction state without the
\* TRANSACTION capability, after compile_rollback answered
RecoveryWithoutTransaction ==
    /\ msg.kind = "Q"
    /\ dispatched
    /\ msg.hdr \subseteq ScriptHeaderKeys
    /\ msg.query # <<>>
    /\ in_tx_error(pre_view)
    /\ "TRANSACTION" \notin allow_capabilities(msg)
    /\ pc # "recover_script"
    /\ err # "ConnectionAbortedError"

\* C7 (as amended): a Q arriving in the failed-transaction state without
\* the TRANSACTION capability acquires no backend connection, runs no SQL
\* and leaves the view in the failed-transaction state; the error is
\* DisabledCapabilityError when the script begins with a rollback statement,
\* and the rollback compiler's own error otherwise, since compile_rollback is
\* awaited before the capability is looked at.
C7_RecoveryNeedsTransaction ==
    RecoveryWithoutTransaction =>
        /\ acquired = 0
        /\ sql_log = <<>>
        /\ view = pre_view
        /\ in_tx_error(view)
        /\ err = IF compile_rollback_ok(msg.query, pre_view)
                 THEN "DisabledCapabilityError" ELSE "TransactionError"

\* C7 witness: a ROLLBACK script without the TRANSACTION capability was
\* refused with DisabledCapabilityError
C7_Witness ==
    /\ RecoveryWithoutTransaction
    /\ pc = "main"
    /\ msg.query[1] = "ROLLBACK"
    /\ err = "DisabledCapabilityError"
    /\ acquired = 0

\* C7 as stated: such a Q always fails with DisabledCapabilityError.
C7_AsStated ==
    RecoveryWithoutTransaction =>
        /\ err = "DisabledCapabilityError"
        /\ acquired = 0
        /\ sql_log = <<>>
        /\ in_tx_error(view)

\* Q "BEGIN; SELECT 1/0; SELECT 1", with or without a trailing ROLLBACK,
\* sent outside a transaction, whose second unit raised
SecondUnitFailed ==
    /\ msg.kind = "Q"
    /\ dispatched
    /\ msg.query \in {<<"BEGIN", "SELECT", "SELECT">>,
                      <<"BEGIN", "SELECT", "SELECT", "ROLLBACK">>}
    /\ ~in_tx(pre_view)
    /\ started = 2
    /\ err \in BackendErrors

\* a well-formed Q that arrived in the failed-transaction state, after
\* compile_rollback answered
ScriptAfterFailure ==
    /\ msg.kind = "Q"
    /\ dispatched
    /\ msg.hdr \subseteq ScriptHeaderKeys
    /\ msg.query # <<>>
    /\ in_tx_error(pre_view)
    /\ pc # "recover_script"
    /\ err # "ConnectionAbortedError"

\* C8 (as amended): in Q "BEGIN; SELECT 1/0; SELECT 1" the first unit opens
\* the transaction and the second unit's error ends the script: the third
\* unit, and a ROLLBACK written after it in the same script, are never
\* started, and the view is left in the failed-transaction state.  A later
\* script that does not begin with a rollback statement fails with
\* TransactionError without running SQL; a script succeeds from the failed
\* state only by beginning with a rollback statement, which is run first.
C8_ScriptStopsAtFirstError ==
    /\ SecondUnitFailed =>
         /\ in_tx(view)
         /\ in_tx_error(view)
         /\ Len(sql_log) = 2
         /\ sql_log[1].unit = "BEGIN"
         /\ sql_log[2].unit = "SELECT"
         /\ units = <<>>
         /\ ~pgcon_held
         /\ pc = "main" => frames = <<"E", "Z">>
    /\ (ScriptAfterFailure /\ ~compile_rollback_ok(msg.query, pre_view)) =>
         /\ err = "TransactionError"
         /\ sql_log = <<>>
         /\ view = pre_view
    /\ (msg.kind = "Q" /\ Returned) =>
         /\ ~in_tx_error(view)
         /\ in_tx_error(pre_view) =>
              (IsRollback(msg.query[1]) /\ sql_log[1].unit = msg.query[1])

\* C8 witness: the script with the trailing ROLLBACK stopped at its second
\* unit and left the transaction failed
C8_Witness ==
    /\ SecondUnitFailed
    /\ pc = "main"
    /\ Len(msg.query) = 4
    /\ in_tx_error(view)
    /\ frames = <<"E", "Z">>

\* C8 as stated: after the second unit's error the third unit is run and
\* fails with TransactionError, and a ROLLBACK in the same script recovers
\* the transaction.
C8_AsStated ==
    (SecondUnitFailed /\ pc = "main") =>
        /\ started >= 3
        /\ Len(msg.query) = 4 => ~in_tx_error(view)

\* a unit of the Q script in hand raised
UnitRaised ==
    /\ msg.kind = "Q"
    /\ dispatched
    /\ started >= 1
    /\ units = <<>>
    /\ sql_log # <<>>
    /\ err \in BackendErrors

\* C9: after a unit of a Q script raised, on_error() has marked the view's
\* transaction failed, and a view still in a transaction implies a backend
\* connection still in one; a failed COMMIT leaves the view Idle.
C9_ViewFollowsBackend ==
    UnitRaised =>
        /\ in_tx(view) => (conn.in_tx /\ in_tx_error(view))
        /\ sql_log[Len(sql_log)].unit = "COMMIT" =>
             (~in_tx(view) /\ ~in_tx_error(view) /\ view.savepoints = <<>>)

\* C9 witness: the COMMIT of a transaction failed and the view is Idle
C9_Witness ==
    /\ UnitRaised
    /\ pc = "main"
    /\ sql_log[Len(sql_log)].unit = "COMMIT"
    /\ ~conn.in_tx
    /\ ~in_tx(view)

\* the view the compiler of the Q script in hand saw
ScriptView ==
    IF skip_first THEN rollback_view(pre_view, QueryUnit(msg.query[1]), TRUE)
    ELSE pre_view

\* the handler in hand got as far as its capability check, with group g
ReachedCheck(g) ==
    /\ dispatched
    /\ err # "ConnectionAbortedError"
    /\ CASE msg.kind = "E" -> msg.hdr = {} /\ ~msg.stmt_name /\ g # None
         [] msg.kind = "O" -> pc # "oe_parse" /\ g = msg.query
         [] msg.kind = "F" ->
               pc # "fq_parse" /\ g = msg.query /\ msg.rtype = "T" /\ ~msg.args
         [] msg.kind = "Q" ->
               /\ msg.hdr \subseteq ScriptHeaderKeys
               /\ msg.query # <<>>
               /\ pc \notin {"recover_script", "recover_sql", "sq_compile"}
               /\ in_tx_error(pre_view) => skip_first
               /\ Check(g, ScriptView.in_tx, ScriptView.savepoints) = "ok"
         [] OTHER -> FALSE

\* the group the handler in hand checks
CheckedGroup ==
    IF msg.kind = "Q" /\ msg.query # <<>> THEN ScriptBody(msg.query, skip_first)
    ELSE last_anon_compiled

\* C10 (as amended): in E, O, F and Q, a compiled group with a capability
\* the message does not allow fails with DisabledCapabilityError before a
\* connection is acquired for it, before view.start and before any of its
\* SQL; but a Q that arrived in the failed-transaction state has by then
\* acquired and released a connection and run its leading rollback
\* statement.  Without an ALLOW_CAPABILITIES header the check never fails.
C10_CapabilityCheckFirst ==
    /\ (ReachedCheck(CheckedGroup) /\ MissingCaps(CheckedGroup, msg) # {}) =>
         /\ err = "DisabledCapabilityError"
         /\ started = 0
         /\ ~pgcon_held
         /\ IF msg.kind = "Q" /\ skip_first
            THEN /\ acquired = 1
                 /\ released = 1
                 /\ Len(sql_log) = 1
                 /\ sql_log[1].unit = msg.query[1]
                 /\ IsRollback(msg.query[1])
            ELSE acquired = 0 /\ sql_log = <<>>
    /\ msg.allow_hdr = <<>> => err # "DisabledCapabilityError"

\* C10 witness: an E without the DDL capability was refused before any
\* connection was acquired
C10_Witness ==
    /\ msg.kind = "E"
    /\ ReachedCheck(last_anon_compiled)
    /\ last_anon_compiled = <<"DDL">>
    /\ "DDL" \in MissingCaps(last_anon_compiled, msg)
    /\ err = "DisabledCapabilityError"
    /\ acquired = 0

\* C10 as stated: DisabledCapabilityError is always raised before any
\* connection is acquired and before any SQL runs.
C10_AsStated ==
    err = "DisabledCapabilityError" =>
        /\ acquired = 0
        /\ started = 0
        /\ sql_log = <<>>

\* the O in hand was compiled, passed the capability check and carries type
\* ids that differ from those of the compiled group
StaleTypeIds ==
    /\ msg.kind = "O"
    /\ dispatched
    /\ last_anon_compiled # None
    /\ last_anon_compiled = msg.query
    /\ MissingCaps(msg.query, msg) = {}
    /\ \/ GroupInTypeId(msg.query) # msg.in_tid
       \/ GroupOutTypeId(msg.query) # msg.out_tid

\* C11: an O whose in_tid or out_tid differs from the compiled group's type
\* ids is answered by CommandDataDescription alone (by nothing when the
\* connection was cancelled during the compilation): no CommandComplete, no
\* backend connection acquired, no unit started, no SQL run, and the view is
\* left exactly as it was.
C11_StaleTypeIdsDescribeOnly ==
    StaleTypeIds =>
        /\ ~cancelled => (frames # <<>> /\ frames[1] = "T")
        /\ Count(frames, "T") <= 1
        /\ Count(frames, "C") = 0
        /\ pc = "main" => (frames = <<"T">> /\ err = "")
        /\ acquired = 0
        /\ started = 0
        /\ sql_log = <<>>
        /\ ~pgcon_held
        /\ view = pre_view

\* C11 witness: inside a transaction, an O with a stale out_tid got the
\* description and nothing was executed
C11_Witness ==
    /\ StaleTypeIds
    /\ pc = "main"
    /\ in_tx(pre_view)
    /\ GroupOutTypeId(msg.query) # msg.out_tid
    /\ frames = <<"T">>
    /\ sql_log = <<>>

\* no handler of the binary connection is running
BetweenMessages == pc \in {"main", "wait", "recover", "write_error", "closed", "off"}

\* C12: a backend connection acquired by a handler (execute, rollback
\* recovery, simple query, GraphQL execute) is released exactly once before
\* the handler returns or raises: at most one is borrowed at a time, a
\* release always follows its acquisition, and when no handler is running
\* nothing is borrowed and every acquisition has been released.
C12_PgconReleased ==
    /\ released <= acquired
    /\ pgcon_held <=> acquired = released + 1
    /\ ~pgcon_held <=> acquired = released
    /\ BetweenMessages => ~pgcon_held
    /\ gql.released <= gql.acquired
    /\ gql.held <=> gql.acquired = gql.released + 1
    /\ ~gql.held <=> gql.acquired = gql.released
    /\ gql.pc # "execute" => ~gql.held

\* C12 witness: the SQL of a Q script raised and the connection it had
\* acquired was released
C12_Witness ==
    /\ pc = "main"
    /\ msg.kind = "Q"
    /\ dispatched
    /\ err \in BackendErrors
    /\ sql_log # <<>>
    /\ acquired = 1
    /\ released = 1
    /\ ~pgcon_held

\* the backend calls the step appends to sql_log
NewCalls == SubSeq(sql_log', Len(sql_log) + 1, Len(sql_log'))

\* the step runs a unit of the Q script in hand, started outside a transaction
RunsUnit ==
    /\ pc = "sq_unit"
    /\ ~in_tx(ScriptView)
    /\ NewCalls # <<>>
    /\ NewCalls[1].path # "execute_system_config"

\* C13 (as amended): in a Q script started outside a transaction the state
\* to restore is the view's serialized state, dropped after get_pgcon()
\* exactly when conn.last_state equals it; that comparison is made once, before
\* the first unit.  The state the handler then holds goes with the first
\* backend call of a unit and never with a later call of the same unit; after
\* every unit that leaves the view outside a transaction the state is
\* serialized afresh, so the next unit of the script restores it even when
\* conn.last_state already equals it.
C13_StateRestore ==
    [][/\ (pc = "sq_getcon" /\ ~in_tx(view)) =>
            /\ state = serialize_state(view)
            /\ pc' = "sq_unit" => (state' = None <=> conn.last_state = state)
            /\ (pc' = "sq_unit" /\ state' # None) => state' = state
       /\ RunsUnit =>
            /\ NewCalls[1].state = state
            /\ \A i \in DOMAIN NewCalls :
                 /\ NewCalls[i].idx = i
                 /\ i > 1 => NewCalls[i].state = None
       /\ (pc = "sq_unit" /\ pc' = "sq_unit" /\ units' # units
              /\ ~in_tx(ScriptView)) =>
            state' = IF ~in_tx(view') THEN serialize_state(view') ELSE state]_vars

\* C13 witness: the second unit of a script restored the state although
\* the backend connection already had it
C13_Witness ==
    /\ msg.kind = "Q"
    /\ pc = "main"
    /\ err = ""
    /\ ~in_tx(ScriptView)
    /\ Len(sql_log) = 2
    /\ sql_log[1].state = None
    /\ sql_log[2].unit = "SELECT"
    /\ sql_log[2].idx = 1
    /\ sql_log[2].state = conn.last_state
    /\ sql_log[2].state # None

\* C13 as stated: a unit's first SQL statement goes without the state
\* exactly when conn.last_state equals view.serialize_state().
C13_AsStated ==
    [][RunsUnit =>
        (NewCalls[1].state = None <=> conn.last_state = serialize_state(view))]_vars

\* the state serialized when the handler in hand began, None in a transaction
StateAtStart == IF in_tx(ScriptView) THEN None ELSE serialize_state(ScriptView)

\* C14: conn.last_state changes only in a step in which a unit succeeded
\* and left the view outside a transaction; the value written is the view's
\* serialized state of that moment, and it differs from the state serialized
\* when the script began or a state was handed to the backend during the
\* script.  A failed unit, a rollback recovery and a view that is in a
\* transaction never write it.
C14_LastStateWrites ==
    [][conn'.last_state # conn.last_state =>
        /\ pc \in {"sq_unit", "exec"}
        /\ err' = ""
        /\ ~in_tx(view')
        /\ conn'.last_state = serialize_state(view')
        /\ \/ serialize_state(view') # StateAtStart
           \/ \E i \in DOMAIN sql_log' : sql_log'[i].state # None]_vars

\* C14 witness: a Q script that changed the session configuration left the
\* new state on the backend connection
C14_Witness ==
    /\ pc = "main"
    /\ msg.kind = "Q"
    /\ err = ""
    /\ msg.query[Len(msg.query)] = "SET"
    /\ ~in_tx(view)
    /\ conn.last_state = serialize_state(view)
    /\ conn.last_state # StateAtStart

\* C15: dbver never decreases and grows by one with every committed
\* user-schema mutation, which also empties the namespace's compiled cache;
\* a lookup_compiled_query on any connection returns only an entry compiled
\* for the current dbver, never one compiled before the last commit.
C15_DbverMonotonic ==
    [][/\ db'.dbver >= db.dbver
       /\ db'.dbver = db'.commits
       /\ db'.commits # db.commits =>
            /\ db'.dbver = db.dbver + 1
            /\ db'.cache = {}
       /\ \A c \in Conns :
            (db'.conn[c].got # None /\ db'.conn[c] # db.conn[c]) =>
                /\ db'.conn[c].got \in db.cache
                /\ db'.conn[c].got.dbver = db.dbver]_vars

\* C15 witness: a compilation requested before a commit was cached after it,
\* and a lookup of the same fingerprint on the other connection missed it
C15_Witness ==
    \E e \in db.cache :
        /\ e.dbver < db.dbver
        /\ \E c \in Conns :
              /\ db.conn[c].pc = "compile"
              /\ db.conn[c].f = e.f
              /\ db.conn[c].dbver = db.dbver

\* message m is an O for the query whose type ids the client last read, and
\* carries exactly those ids
SentAdvertisedIds(m) ==
    /\ advertised # None
    /\ m.kind = "O"
    /\ m.query = advertised.query
    /\ m.in_tid = advertised.in_tid
    /\ m.out_tid = advertised.out_tid

VersionMax(a, b) == IF VersionGE(a, b) THEN a ELSE b
VersionMin(a, b) == IF VersionGE(a, b) THEN b ELSE a

\* version v brought into the server's range
Clamp(v) == VersionMin(VersionMax(v, min_protocol), max_protocol)

\* the handshake of the connection returned and the connection is still
\* being set up
HandshakeReturned == hs.phase = "setup" /\ hs.handshaken

\* C18: a handshake that returns wrote NegotiateProtocolVersion exactly when
\* the requested version lies outside [min_protocol, max_protocol] or the
\* client sent at least one extension, at most once, and the version it
\* announced is the requested one clamped to that range.
C18_NegotiateIffClampedOrExtensions ==
    HandshakeReturned =>
        /\ Count(frames, "v") <= 1
        /\ Count(frames, "v") = 1 <=>
              (Clamp(hs.requested) # hs.requested \/ hs.sent_exts > 0)
        /\ hs.nexts = hs.sent_exts
        /\ hs.announced = IF Count(frames, "v") = 1 THEN Clamp(hs.requested)
                          ELSE None
        /\ frames # <<>> /\ frames[1] # "v" => Count(frames, "v") = 0

\* C18 witness: version (0,8) was asked for without extensions and (0,9)
\* was announced
C18_Witness ==
    /\ HandshakeReturned
    /\ hs.requested = <<0, 8>>
    /\ hs.sent_exts = 0
    /\ hs.announced = <<0, 9>>
    /\ frames = <<"v">>

\* the connection asked for version (0,10) and its handshake was read
Asked_0_10 == hs.phase = "setup" /\ hs.requested = <<0, 10>> /\ pc # "handshake"

\* C19: with the range [(0,9),(1,0)] a handshake asking for (0,10) always
\* returns and goes on to legacy_auth; it announces (0,10) in a
\* NegotiateProtocolVersion when the client sent an extension, and writes no
\* negotiation frame when it sent none.
C19_Handshake_0_10 ==
    /\ min_protocol = <<0, 9>>
    /\ max_protocol = <<1, 0>>
    /\ Asked_0_10 =>
        /\ hs.handshaken
        /\ pc \in {"auth", "start_connection", "get_auth_method", "auth_scram",
                   "closed"}
        /\ pc = "closed" => err # ""
        /\ hs.sent_exts > 0 =>
              (frames # <<>> /\ frames[1] = "v" /\ hs.announced = <<0, 10>>)
        /\ hs.sent_exts = 0 => (Count(frames, "v") = 0 /\ hs.announced = None)

\* C19 witness: (0,10) was announced and legacy_auth is awaiting
\* _start_connection
C19_Witness ==
    /\ Asked_0_10
    /\ hs.sent_exts = 1
    /\ frames = <<"v">>
    /\ hs.announced = <<0, 10>>
    /\ pc = "start_connection"

\* C19 as stated: every handshake asking for (0,10) announces (0,10)
C19_AsStated ==
    Asked_0_10 => (Count(frames, "v") = 1 /\ hs.announced = <<0, 10>>)

\* legacy_auth raised an exception and the transport was still there
AuthRaisedOpen ==
    /\ HandshakeReturned
    /\ pc = "closed"
    /\ err \notin {"", "CancelledError"}
    /\ transport_open

\* C20: when legacy_auth raises and the transport is still there, the error
\* is written, close() is called and legacy_main returns; a connection is
\* marked authed, and on_binary_client_authed called, only when legacy_auth
\* returned, and the message loop dispatches nothing before that.
C20_AuthFailureCloses ==
    /\ AuthRaisedOpen =>
          /\ frames # <<>> /\ frames[Len(frames)] = "E"
          /\ Count(frames, "E") = 1
          /\ teardown = <<"close">>
          /\ ~hs.authed /\ hs.notified = 0
    /\ hs.notified = (IF hs.authed THEN 1 ELSE 0)
    /\ ~hs.authed =>
          /\ handled = 0 /\ msg = NoMsg /\ ~dispatched
          /\ pc \in {"handshake", "auth", "start_connection", "get_auth_method",
                     "auth_scram", "closed"}
    /\ (hs.authed /\ handled = 0) => Count(frames, "E") = 0

\* C20 witness: SCRAM authentication failed on an open connection
C20_Witness ==
    /\ AuthRaisedOpen
    /\ err = "AuthenticationError"
    /\ hs.started
    /\ ~hs.external_auth
    /\ frames[Len(frames)] = "E"

\* C21: a request that lacks the user or the database is refused with a
\* protocol error, and one that names a system template database with
\* AccessError, in both cases before _start_connection is awaited and before
\* any authentication method is chosen or run.
C21_RefusedBeforeStart ==
    (HandshakeReturned /\ hs.phase = "setup" /\ pc # "auth") =>
        LET missing == ~hs.user \/ hs.database = ""
            special == hs.database \in EDGEDB_SPECIAL_DBS
        IN /\ missing =>
                (pc = "closed" /\ err = "BinaryProtocolError")
           /\ (~missing /\ special) =>
                (pc = "closed" /\ err = "AccessError")
           /\ (missing \/ special) =>
                (~hs.started /\ hs.method = "" /\ Count(frames, "R") = 0)
           /\ (~missing /\ ~special) =>
                ~(pc = "closed" /\ err \in {"BinaryProtocolError", "AccessError"})

\* C21 witness: the template database was asked for by a named user and the
\* connection was refused with the error written
C21_Witness ==
    /\ HandshakeReturned
    /\ hs.user
    /\ hs.database = "template"
    /\ pc = "closed"
    /\ err = "AccessError"
    /\ ~hs.started
    /\ frames[Len(frames)] = "E"

C24_AsStated ==
    [][cancelled =>
          \A t \in {"E", "Z", "L"} : Count(frames', t) = Count(frames, t)]_vars

\* C25: a BackendQueryCancelledError raised by a handler leaves the loop with
\* no ErrorResponse only when the connection is being cancelled (or already
\* lost); on a connection that is not cancelled it takes the way of every
\* other error: tx_error on the view, ErrorResponse, then ReadyForQuery for a
\* Q and the Sync recovery for the other messages.
C25_CancelledQueryError ==
    [][/\ (err = "" /\ err' = "BackendQueryCancelledError") =>
            /\ cancelled =>
                  /\ pc' = "closed"
                  /\ \A t \in {"E", "Z"} : Count(frames', t) = Count(frames, t)
            /\ (~cancelled /\ con_status = "ok") =>
                  /\ pc' = "write_error"
                  /\ view'.in_tx => view'.tx_error
                  /\ Count(frames', "E") = Count(frames, "E")
       /\ (pc = "write_error" /\ pc' # "write_error" /\ con_status = "ok"
           /\ err = "BackendQueryCancelledError") =>
            /\ ~cancelled
            /\ IF msg.kind = "Q"
               THEN frames' = frames \o <<"E", "Z">> /\ pc' = "main"
               ELSE frames' = Append(frames, "E") /\ pc' = "recover"
      ]_vars

\* C25 witness: the backend cancelled a query inside a transaction on a
\* connection that is not cancelled; the error was written and the loop is
\* in its Sync recovery
C25_Witness ==
    /\ err = "BackendQueryCancelledError"
    /\ ~cancelled
    /\ pc = "recover"
    /\ view.in_tx /\ view.tx_error
    /\ frames # <<>> /\ frames[Len(frames)] = "E"

C27_DescribeLegacyOnly ==
    [][(handled' = handled + 1 /\ msg'.kind = "D") =>
          IF VersionGE(protocol_version, <<0, 14>>)
          THEN /\ err' = "BinaryProtocolError"
               /\ pc' = "closed"
               /\ Count(frames', "T") = 0
          ELSE msg'.hdr = {} =>
               /\ msg'.rtype # "T" =>
                     (err' = "BinaryProtocolError" /\ Count(frames', "T") = 0)
               /\ (msg'.rtype = "T" /\ ~msg'.stmt_name) =>
                     IF last_anon_compiled = None
                     THEN /\ err' = "TypeSpecNotFoundError"
                          /\ pc' = "write_error"
                          /\ Count(frames', "T") = 0
                     ELSE /\ err' = ""
                          /\ pc' = "main"
                          /\ frames' = <<"T">>
      ]_vars

\* C27 witness: on protocol (0,13) a Describe in mode T was answered with the
\* description of the last anonymous compiled query
C27_Witness ==
    /\ msg.kind = "D"
    /\ protocol_version = <<0, 13>>
    /\ last_anon_compiled # None
    /\ pc = "main"
    /\ err = ""
    /\ frames = <<"T">>

\* C28: _last_anon_compiled changes only while a P, O or F is handled: the
\* message clears it on entry (an O that hits the cache sets it to its own
\* query at once) and sets it only to its own query and only when _parse
\* succeeded; no other message touches it.  An E executes exactly it, and an
\* E or a D that finds it absent fails without executing or describing.
C28_LastAnonCompiled ==
    [][/\ handled' = handled + 1 =>
            IF msg'.kind \in {"P", "O", "F"}
            THEN \/ last_anon_compiled' = None
                 \/ /\ msg'.kind = "O"
                    /\ last_anon_compiled' = msg'.query
                    /\ lookup_compiled_query(view, cache, msg'.query)
            ELSE last_anon_compiled' = last_anon_compiled
       /\ handled' = handled =>
            \/ last_anon_compiled' = last_anon_compiled
            \/ /\ msg.kind \in {"P", "O", "F"}
               /\ pc \in {"parse", "oe_parse", "fq_parse"}
               /\ last_anon_compiled = None
               /\ last_anon_compiled' = msg.query
               /\ parse_ok(view, cache, msg.query)
       /\ (handled' = handled + 1 /\ msg'.kind = "E") =>
            IF last_anon_compiled = None \/ err' # ""
            THEN /\ err' # ""
                 /\ UNCHANGED <<units, acquired, sql_log>>
            ELSE units' = last_anon_compiled
       /\ (handled' = handled + 1 /\ msg'.kind = "D"
           /\ last_anon_compiled = None) =>
            (err' # "" /\ Count(frames', "T") = 0)
      ]_vars

\* C28 witness: an E, the second message handled, is executing the query
\* that the preceding message left as the last anonymous compiled query
C28_Witness ==
    /\ msg.kind = "E"
    /\ handled = 2
    /\ pc = "exec"
    /\ last_anon_compiled # None
    /\ units = last_anon_compiled

\* C29: once the query of an F has compiled, a describe byte other than T
\* raises BinaryProtocolError, a non-empty bind-args block raises
\* UnsupportedFeatureError and a capability the headers do not allow raises
\* DisabledCapabilityError, each with no CommandDataDescription written and
\* no backend connection taken; otherwise the description is written and
\* _execute is entered on the same step, the description ahead of whatever
\* the execution writes.
C29_FastQueryChecksThenDescribes ==
    [][(/\ msg.kind = "F"
        /\ pc = "fq_parse" /\ pc' # "fq_parse"
        /\ parse_ok(view, cache, msg.query)) =>
          LET refused ==
                IF msg.rtype # "T" THEN "BinaryProtocolError"
                ELSE IF msg.args THEN "UnsupportedFeatureError"
                ELSE IF GroupCapabilities(msg.query) \ allow_capabilities(msg) # {}
                THEN "DisabledCapabilityError"
                ELSE ""
          IN IF refused # ""
             THEN /\ err' = refused
                  /\ Count(frames', "T") = 0
                  /\ UNCHANGED <<units, acquired, pgcon_held, sql_log>>
             ELSE /\ IsPrefix(Append(frames, "T"), frames')
                  /\ Count(frames, "T") = 0
                  /\ sql_log' = sql_log
                  /\ \/ pc' = "exec" /\ units' = msg.query /\ err' = ""
                     \/ in_tx_error(view) /\ err' = "TransactionError"
      ]_vars

\* C29 witness: an F with mode T and no arguments has written its description
\* and is executing
C29_Witness ==
    /\ msg.kind = "F"
    /\ msg.rtype = "T" /\ ~msg.args
    /\ pc = "exec"
    /\ frames = <<"T">>
    /\ units = msg.query

\* C30: P, O and F accept the seven query header keys, Q accepts
\* ALLOW_CAPABILITIES, EXPLICIT_MODULE and PROHIBIT_MUTATION, E accepts
\* ALLOW_CAPABILITIES alone.  A message carrying any other key raises
\* BinaryProtocolError on the step that dispatches it, with nothing compiled,
\* cached or executed; a message carrying accepted keys only (with a query,
\* and for E an anonymous statement to run) does not.
C30_UnknownHeaderRejected ==
    [][(handled' = handled + 1 /\ msg'.kind \in {"P", "O", "F", "Q", "E"}) =>
          LET m == msg'
              sent == m.hdr \cup (IF m.allow_hdr = <<>> THEN {}
                                  ELSE {"ALLOW_CAPABILITIES"})
              accepted ==
                  IF m.kind = "E" THEN {"ALLOW_CAPABILITIES"}
                  ELSE IF m.kind = "Q"
                  THEN {"ALLOW_CAPABILITIES", "EXPLICIT_MODULE",
                        "PROHIBIT_MUTATION"}
                  ELSE {"IMPLICIT_LIMIT", "IMPLICIT_TYPEIDS",
                        "IMPLICIT_TYPENAMES", "ALLOW_CAPABILITIES",
                        "EXPLICIT_OBJECTIDS", "EXPLICIT_MODULE",
                        "PROHIBIT_MUTATION"}
          IN IF ~(sent \subseteq accepted)
             THEN /\ err' = "BinaryProtocolError"
                  /\ pc' \in {"closed", "write_error"}
                  /\ UNCHANGED <<cache, units, acquired, sql_log>>
                  /\ last_anon_compiled' = IF m.kind \in {"E", "Q"}
                                           THEN last_anon_compiled ELSE None
             ELSE (/\ sent # {}
                   /\ m.query # <<>> \/ m.kind = "E"
                   /\ m.kind = "E" => last_anon_compiled # None) =>
                       err' # "BinaryProtocolError"
      ]_vars

\* C30 witness: an E carrying EXPLICIT_MODULE, a key that P, O, F and Q
\* accept, was refused with an anonymous statement at hand
C30_Witness ==
    /\ msg.kind = "E"
    /\ msg.hdr = {"EXPLICIT_MODULE"}
    /\ last_anon_compiled # None
    /\ err = "BinaryProtocolError"
    /\ pc = "closed"
    /\ units = <<>>

\* the names of the fields of the frame written, in order
WrittenFields == [i \in 1..Len(frames[1].fields) |-> frames[1].fields[i].field]

\* C31: ParseComplete carries the capabilities header, the cardinality byte
\* and the input and output type ids of the compiled query; each id is
\* followed by its length-prefixed type data exactly when the protocol
\* version is at least (0,14).  CommandDataDescription carries ids and type
\* data on every version.
C31_ParseCompleteLayout ==
    LET head == <<"num_headers", "SERVER_HEADER_CAPABILITIES", "cardinality">>
        full == head \o <<"in_type_id", "in_type_data",
                          "out_type_id", "out_type_data">>
        bare == head \o <<"in_type_id", "out_type_id">>
        f == frames[1].fields
    IN /\ pc = "wrote_1" =>
            /\ frames[1].mtype = "1"
            /\ WrittenFields = IF VersionGE(protocol_version, <<0, 14>>)
                               THEN full ELSE bare
            /\ f[2].value = GroupCapabilities(last_anon_compiled)
            /\ f[4].value = GroupInTypeId(last_anon_compiled)
            /\ f[Len(f) - (Len(f) - 5) \div 2].value
                  = GroupOutTypeId(last_anon_compiled)
            /\ \A i \in 4..Len(f) :
                  f[i].len_prefixed =
                      (f[i].field \in {"in_type_data", "out_type_data"})
       /\ pc = "wrote_T" =>
            /\ frames[1].mtype = "T"
            /\ WrittenFields = full
            /\ f[5].len_prefixed /\ f[7].len_prefixed

\* C31 witness: a ParseComplete written on protocol (0,13), without type data
C31_Witness ==
    /\ pc = "wrote_1"
    /\ protocol_version = <<0, 13>>
    /\ last_anon_compiled = <<"SELECT">>
    /\ Len(frames[1].fields) = 5
    /\ frames[1].fields[5].field = "out_type_id"
    /\ frames[1].fields[5].value = 1

\* C32 as stated, for the marker it singles out: a unit of a Q script with
\* drop_ns set and drop_db unset whose SQL succeeded got the
\* before-drop-namespace hook and, after it, the after-drop-namespace hook
C32_AsStated ==
    [][(/\ msg.kind = "Q"
        /\ pc = "sq_unit"
        /\ units # <<>>
        /\ units' = Tail(units)
        /\ err' = ""
        /\ QueryUnit(Head(units)).drop_ns
        /\ ~QueryUnit(Head(units)).drop_db) =>
          LET new == SubSeq(hooks', Len(hooks) + 1, Len(hooks')) IN
          /\ Count(new, "_on_before_drop_ns") = 1
          /\ Count(new, "_on_after_drop_ns") = 1
          /\ new[Len(new)] = "_on_after_drop_ns"]_vars

\* C33 (as stated): every answered request has status 200 or 400 and a body
\* that is {"data": ...} or {"error": {message, type, code}}, a malformed
\* request getting 400
C33_AsStated ==
    http.pc = "done" =>
        /\ http.status \in {200, 400}
        /\ http.body.kind = "json"
        /\ request_error(http.request) # "" => http.status = 400

\* C33: an unknown path is answered 404 with the text "Unknown path"; a
\* malformed request 400 with the text of the exception as the body and the
\* connection marked for closing; every other request 200 with a JSON body
\* that is {"data": ...} or, when execution raised, {"error": {message, type,
\* code}}
C33_HttpAnswers ==
    http.pc = "done" =>
        LET r == http.request IN
        IF r.args \notin {<<>>, <<"query">>}
        THEN /\ http.status = 404
             /\ http.body = [kind |-> "text", text |-> "Unknown path"]
             /\ http.close_connection
        ELSE IF \/ r.method \notin {"POST", "GET"}
                \/ r.method = "POST" /\ (~r.json_content_type \/ r.body # "dict")
                \/ r.query # "text"
                \/ r.variables \notin {"absent", "dict"}
                \/ r.globals \notin {"absent", "dict"}
                \/ r.limit = "str"
                \/ r.method = "POST" /\ (r.module = "int" \/ r.namespace = "int")
        THEN /\ http.status = 400
             /\ http.body.kind = "text"
             /\ http.close_connection
        ELSE /\ http.status = 200
             /\ http.content_type = "application/json"
             /\ http.read_only = (r.args = <<"query">>)
             /\ ~http.close_connection
             /\ http.body.kind = "json"
             /\ \/ DOMAIN http.body = {"kind", "data"}
                \/ /\ DOMAIN http.body = {"kind", "error"}
                   /\ DOMAIN http.body.error = {"message", "type", "code"}

\* an execution error was answered
C33_Witness ==
    /\ http.pc = "done"
    /\ http.body.kind = "json"
    /\ "error" \in DOMAIN http.body
    /\ http.body.error.type = "InternalServerError"

\* C34: a turn of the unit loop of Q handles the first unit left of the
\* script and no other: every backend call it adds is that unit's, SQL is
\* run only for a unit that was started, a unit that start() refuses runs no
\* SQL, a unit that raised ends the script with no later unit started, and a
\* unit that succeeded has on_success applied (a COMMIT or ROLLBACK has left
\* the transaction, a BEGIN has entered it) before the next unit's turn
C34_UnitsInOrder ==
    [][(pc = "sq_unit" /\ ~(pc' = "sq_unit" /\ units' = units)) =>
         LET n == units[1]
             u == QueryUnit(n)
         IN /\ IsPrefix(sql_log, sql_log')
            /\ \A i \in (Len(sql_log) + 1)..Len(sql_log') : sql_log'[i].unit = n
            /\ started' \in {started, started + 1}
            /\ sql_log' # sql_log => started' = started + 1
            /\ (view.tx_error /\ ~IsRollback(n)) => (sql_log' = sql_log /\ err' # "")
            /\ err' # "" => (units' = <<>> /\ pc' # "sq_unit")
            /\ err' = "" =>
                 /\ started' = started + 1
                 /\ units' = Tail(units)
                 /\ Len(sql_log') = Len(sql_log) + NCalls(u)
                 /\ ~view'.tx_error
                 /\ (u.tx_commit \/ u.tx_rollback) => ~view'.in_tx
                 /\ u.tx_id => view'.in_tx
                 /\ (pc' = "sq_unit") = (Tail(units) # <<>>)]_vars

\* the second unit of a script failed after the first had succeeded
C34_Witness ==
    /\ msg.kind = "Q"
    /\ Len(msg.query) = 3
    /\ started = 2
    /\ err \in BackendErrors
    /\ sql_log # <<>>
    /\ sql_log[Len(sql_log)].unit = msg.query[2]
    /\ units = <<>>

\* the units whose SQL was run, in the order of their first backend call
LogUnits(log) ==
    LET first == SelectSeq(log, LAMBDA c : c.idx = 1)
    IN [i \in 1..Len(first) |-> first[i].unit]

\* C35: a Q taken in the failed-transaction state runs its leading rollback
\* before anything else; when the rollback succeeded and was the whole
\* script the reply is CommandComplete + ReadyForQuery with nothing
\* compiled; otherwise the script is compiled with skip_first set, the units
\* to run are the statements after the first, and over the whole Q the units
\* run are a prefix of the script: the rollback is not run a second time
C35_RollbackThenRest ==
    [][/\ (pc = "recover_sql" /\ pc' # "recover_sql") =>
            /\ IsRollback(msg.query[1])
            /\ sql_log = <<>>
            /\ LogUnits(sql_log') = <<msg.query[1]>>
            /\ started' = started
            /\ (err' = "" /\ Len(msg.query) = 1) =>
                    /\ pc' = "main"
                    /\ frames' = frames \o <<"C", "Z">>
                    /\ ~skip_first'
            /\ (err' = "" /\ Len(msg.query) > 1) =>
                    /\ pc' = "sq_compile"
                    /\ skip_first'
                    /\ frames' = frames
       /\ (pc = "sq_compile" /\ pc' = "sq_getcon" /\ skip_first) =>
            /\ units' = Tail(msg.query)
            /\ sql_log' = sql_log
       /\ (msg.kind = "Q" /\ dispatched) => IsPrefix(LogUnits(sql_log), msg.query)]_vars

\* a script of a rollback and one more statement, taken in the failed state,
\* ran both
C35_Witness ==
    /\ msg.kind = "Q"
    /\ skip_first
    /\ Len(msg.query) = 2
    /\ LogUnits(sql_log) = msg.query
    /\ pc = "main"
    /\ frames = <<"C", "Z">>

\* C36 (as stated): once the handshake returned, protocol_version lies within
\* [min_protocol, max_protocol]
C36_AsStated ==
    (hs.handshaken /\ hs.phase = "setup") =>
        /\ VersionGE(protocol_version, min_protocol)
        /\ VersionGE(max_protocol, protocol_version)

\* C37 (as stated): a request is compiled only if no operation compiled for
\* the same query, variables and dbver is in the cache
C37_AsStated ==
    [][\A c \in GqlCallers :
         (gcache.execute[c].pc = "idle" /\ gcache'.execute[c].pc = "compile") =>
            ~\E x \in gcache.query_cache :
                /\ x.entry.kind = "op"
                /\ x.entry.query = gcache'.execute[c].query
                /\ x.entry.a = gcache'.execute[c].a
                /\ x.key[Len(x.key)] = gcache'.execute[c].dbver]_vars

\* C38: an operation is cached under the dbver whose schema it was compiled
\* against, and the operation a request runs, compiled or taken from the
\* cache, was compiled against the schema of the dbver the request read,
\* whatever commits happened while a compilation was awaited
C38_CachedUnderOwnDbver ==
    /\ \A x \in gcache.query_cache :
          x.entry.kind = "op" => x.entry.user_schema = x.key[Len(x.key)]
    /\ \A c \in GqlCallers :
          LET e == gcache.execute[c] IN
          /\ e.pc = "compile" => e.user_schema = e.dbver
          /\ e.pc = "done" => (e.op.kind = "op" /\ e.op.user_schema = e.dbver)
          /\ e.pc # "idle" => e.dbver <= db.dbver

\* a compilation that was overtaken by a commit has returned, and a request
\* for the same query made after the commit ran an operation of the new schema
C38_Witness ==
    \E c, d \in GqlCallers :
        LET e == gcache.execute[c]
            f == gcache.execute[d]
        IN /\ e.pc = "done" /\ ~e.use_prep_stmt /\ e.dbver < db.dbver
           /\ f.pc = "done" /\ f.dbver = db.dbver
           /\ f.query = e.query /\ f.a = e.a
           /\ \E x \in gcache.query_cache :
                 x.entry = e.op /\ x.key[Len(x.key)] = e.dbver

C40_BadConnectionReturns ==
    [][/\ (con_status = "bad" /\ err = "" /\ err' # "" /\ pc # "write_error") =>
            /\ pc' = "closed"
            /\ Count(frames', "E") = Count(frames, "E")
            /\ Count(frames', "Z") = Count(frames, "Z")
            /\ pc = "sq_compile" => view' = view
       /\ (con_status = "bad" /\ pc = "write_error" /\ pc' # "write_error") =>
            /\ pc' = "closed"
            /\ IsPrefix(Append(frames, "E"), frames')
            /\ Count(frames', "Z") = Count(frames, "Z")
            /\ view' = view]_vars

\* a script that did not compile inside a transaction on a lost connection:
\* the loop was left, nothing was written, the transaction is not marked failed
C40_Witness ==
    /\ pc = "closed"
    /\ con_status = "bad"
    /\ msg.kind = "Q"
    /\ err = "QueryError"
    /\ view.in_tx /\ ~view.tx_error
    /\ frames = <<>>
    /\ teardown = <<"abort">>

====
